---------------------------------- MODULE Io ----------------------------------
(***************************************************************************)
(* io.cpp of cosi: the ports, behind which are the catalyst and the disk,  *)
(* a file with a word on each line, which is also what memory is loaded    *)
(* from.  No port writes the disk.                                         *)
(***************************************************************************)
EXTENDS Words

CONSTANT BootLines      \* how many lines io::reset() loads, 512 in the code
ASSUME BootLinesAssumption == BootLines \in 0 .. 65536      \* the words of memory

VARIABLES
    disk,                   \* the file: line -> word or NotHex
    disk_addr,
    catalyst_info_return    \* the answer to the last question to the catalyst

ioVars == <<disk, disk_addr, catalyst_info_return>>

NotHex == -1    \* a line that is not four hexadecimal digits

\* Behind the end and of such lines the disk has zeros.
DriveRead(a) == IF a \in DOMAIN disk /\ disk[a] # NotHex THEN disk[a] ELSE 0
Loaded == [a \in {x \in DOMAIN disk : x < BootLines} |-> DriveRead(a)]

\* A port has its device in the upper 6 bits; the catalyst is device 0.
PortOf(pid) == IF pid \div 1024 # 0 THEN "none"
               ELSE CASE pid % 1024 = 0  -> "cmd"
                      [] pid % 1024 = 14 -> "drive_addr"
                      [] pid % 1024 = 15 -> "drive_data"
                      [] OTHER           -> "none"

IoRead(pid) ==
    CASE PortOf(pid) = "cmd"        -> catalyst_info_return
      [] PortOf(pid) = "drive_addr" -> disk_addr
      [] PortOf(pid) = "drive_data" -> DriveRead(disk_addr)
      [] OTHER                      -> 0

\* Of the commands only the questions for version and memory change something.
InfoAfter(data) == CASE data = \h0101 -> \h0101
                     [] data = \h0102 -> \h0020
                     [] OTHER         -> catalyst_info_return

IoWrite(pid, data) ==
    /\ catalyst_info_return' =
          IF PortOf(pid) = "cmd" THEN InfoAfter(data) ELSE catalyst_info_return
    /\ disk_addr' = IF PortOf(pid) \in {"drive_addr", "drive_data"} THEN data ELSE disk_addr
    /\ UNCHANGED disk
=============================================================================
