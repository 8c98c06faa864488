------------------------------- MODULE MCCosi -------------------------------
(***************************************************************************)
(* A small cosi for TLC: two pages, a process for each of two pids, a page *)
(* table for each in the frame k that only page pk is mapped to.           *)
(***************************************************************************)
EXTENDS Cosi, TLC, Naturals

CONSTANTS pu, pk,   \* a page of the processes, a page of the kernel
          f, k,     \* a frame of theirs, and the kernel's
          t0, t1

MCPage       == {pu, pk}
MCFrame      == {f, k}
MCIdentity   == (pu :> f) @@ (pk :> k)
MCTable      == {t0, t1}
MCTableFrame == (t0 :> k) @@ (t1 :> k)
MCPid        == {0, 1}
MCTableOf    == (0 :> t0) @@ (1 :> t1)
MCLevels     == {{}, Privilege}

Mapped(rights, protect, dirty, frame) ==
  [present |-> TRUE, protect |-> protect, dirty |-> dirty,
   rights |-> rights, frame |-> frame]

\* The page of the process may be written, or not; the kernel's is protected
MCWords == (pu :> {Mapped(Access \ {"execute"}, FALSE, FALSE, f),
                   Mapped(Access \ {"write"}, FALSE, FALSE, f)})
        @@ (pk :> {Mapped(Access, TRUE, TRUE, k)})
=============================================================================
