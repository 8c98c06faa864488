------------------------------- MODULE Cache --------------------------------
(***************************************************************************)
(* cache: the direct mapped write-through cache, with its invalidation     *)
(* sweep after a reset.                                                    *)
(***************************************************************************)
EXTENDS MemTypes

VARIABLES
  g_enabled,  \* the generic: chosen when the module is built, then constant
  entry,      \* ram of the entity: one t_cache_entry per index
  is_init,    \* the sweep is running
  init_addr   \* next index the sweep clears

cachevars == <<g_enabled, entry, is_init, init_addr>>

EntryEmpty == [valid |-> FALSE, tag |-> ZeroTag, data |-> Zero]

CacheInit ==
  /\ g_enabled \in BOOLEAN
  /\ entry = [i \in Index |-> EntryEmpty]
  /\ is_init = FALSE
  /\ init_addr = 0

\* A fault of the hit: no tag comparison
CacheHitAnyTag(i_addr) == g_enabled /\ entry[IndexOf(i_addr)].valid

\* o_hit and o_init
CacheHit(i_addr) ==
  /\ g_enabled
  /\ entry[IndexOf(i_addr)].valid
  /\ entry[IndexOf(i_addr)].tag = TagOf(i_addr)

CacheReady == g_enabled => ~is_init

CacheDrive(i_addr, i_read, i_write) ==
  IF CacheHit(i_addr) /\ i_read /\ ~i_write
  THEN entry[IndexOf(i_addr)].data ELSE Z

\* Faults of the sweep: it stops one entry early; it never stops
SweepShort ==
  /\ is_init' = (init_addr + 1 < High)
  /\ init_addr' = IF init_addr = High THEN init_addr ELSE init_addr + 1
  /\ entry' = [entry EXCEPT ![init_addr] = EntryEmpty]
  /\ UNCHANGED g_enabled
SweepForever ==
  /\ is_init' = TRUE
  /\ init_addr' = IF init_addr = High THEN 0 ELSE init_addr + 1
  /\ entry' = [entry EXCEPT ![init_addr] = EntryEmpty]
  /\ UNCHANGED g_enabled

Sweep ==
  /\ is_init' = (init_addr # High)
  /\ init_addr' = IF init_addr = High THEN init_addr ELSE init_addr + 1
  /\ entry' = [entry EXCEPT ![init_addr] = EntryEmpty]
  /\ UNCHANGED g_enabled

Fill(i_addr, io_data) ==
  /\ entry' = [entry EXCEPT ![IndexOf(i_addr)] =
                 [valid |-> TRUE, tag |-> TagOf(i_addr), data |-> io_data]]
  /\ UNCHANGED <<g_enabled, is_init, init_addr>>

CacheTick(i_addr, i_write, io_data) ==
  \/ is_init /\ Sweep
  \/ ~is_init /\ i_write /\ Fill(i_addr, io_data)
  \/ ~is_init /\ ~i_write /\ UNCHANGED cachevars

\* A fault of the reset: it starts no sweep
CacheResetKeeps == UNCHANGED cachevars

\* Without a cache the reset branch does nothing
CacheReset ==
  /\ UNCHANGED <<g_enabled, entry>>
  /\ is_init' = (g_enabled \/ is_init)
  /\ init_addr' = IF g_enabled THEN 0 ELSE init_addr
=============================================================================
