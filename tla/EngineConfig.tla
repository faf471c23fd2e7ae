---------------------------- MODULE EngineConfig ----------------------------
(***************************************************************************)
(* The configuration of an engine: what parse_config reads of the JSON the *)
(* page sends, and what EngineConfig::validate makes of it.                *)
(***************************************************************************)
EXTENDS Integers

CONSTANT MaxField       \* u32::MAX

ASSUME MaxFieldAssumption == MaxField \in Nat /\ MaxField >= 8192

PageHeaderSize == 16    \* PAGE_HEADER_SIZE
SlotSize == 4           \* SLOT_SIZE

Default ==
    [page_size |-> 128, pool_size |-> 8, disk_capacity |-> 64, overflow_threshold |-> 64]

(* extract_u32: a number that is negative, too large or missing is no u32. *)
Parsed(config) ==
    [field \in DOMAIN Default |->
        IF config[field] \in 0 .. MaxField THEN config[field] ELSE Default[field]]

Clamp(n, low, high) == IF n < low THEN low ELSE IF n > high THEN high ELSE n

RoundUp8(n) == 8 * ((n + 7) \div 8)

(* Mutant of Validated: the disk is compared with the pool before it is    *)
(* clamped, and the threshold with the page size as it was typed.          *)
ValidatedEarly(config) ==
    [page_size |-> RoundUp8(Clamp(config.page_size, 64, 8192)),
     pool_size |-> Clamp(config.pool_size, 4, 32),
     disk_capacity |->
        Clamp(IF config.disk_capacity < config.pool_size
              THEN config.pool_size ELSE config.disk_capacity, 16, 256),
     overflow_threshold |->
        Clamp(config.overflow_threshold, 32, config.page_size - PageHeaderSize - SlotSize)]

(* EngineConfig::validate *)
Validated(config) ==
    LET page == RoundUp8(Clamp(config.page_size, 64, 8192))
        pool == Clamp(config.pool_size, 4, 32)
        disk == Clamp(config.disk_capacity, 16, 256)
    IN  [page_size |-> page,
         pool_size |-> pool,
         disk_capacity |-> IF disk < pool THEN pool ELSE disk,
         overflow_threshold |->
            Clamp(config.overflow_threshold, 32, page - PageHeaderSize - SlotSize)]

Configured(config) == Validated(Parsed(config))

-----------------------------------------------------------------------------

(***************************************************************************)
(* A configuration the engine can work with: pages are a multiple of eight *)
(* bytes that 16-bit offsets address, all frames can hold different pages, *)
(* and a value that is not spilled leaves room for the header and a slot.  *)
(***************************************************************************)
Legal(config) ==
    /\ config.page_size \in 64 .. 8192 /\ config.page_size % 8 = 0
    /\ config.pool_size \in 4 .. 32
    /\ config.disk_capacity \in 16 .. 256
    /\ config.pool_size <= config.disk_capacity
    /\ config.overflow_threshold >= 32
    /\ PageHeaderSize + SlotSize + config.overflow_threshold <= config.page_size

=============================================================================
