------------------------------ MODULE Storage ------------------------------
(***************************************************************************)
(* Sectors of the disk through the AHCI driver, which moves chunks through *)
(* one bounce buffer with one command slot, or through the ATA ports, a    *)
(* sector at a time.  A call is made with interrupts off, so there is one  *)
(* at a time; the drive (external) works beside it and may answer late,    *)
(* fail, or never answer.                                                  *)
(***************************************************************************)
EXTENDS Naturals, Sequences, FiniteSetsExt

CONSTANTS NSectors,     \* of the disk
          Chunk,        \* sectors of the bounce buffer
          Ports,        \* what may be attached to the ports of the controller
          Values        \* what a caller writes

VARIABLES driver,       \* g_storage_type; "unprobed" before storage_init
          ready,        \* g_storage_ready
          disk,         \* sector -> <<value, sector it was written for>>
          call,         \* the call in progress
          dma,          \* g_dma_buf
          table,        \* the command table in memory
          port,         \* registers of the port: ci, busy, error, halted
          work          \* what the drive is executing

vars == <<driver, ready, disk, call, dma, table, port, work>>

Sectors == 0 .. NSectors - 1
NoCall == [at |-> "idle"]
NoWork == [on |-> FALSE]
QuietPort == [ci |-> FALSE, busy |-> FALSE, error |-> FALSE, halted |-> FALSE]
Blank(s) == <<"blank", s>>

Init ==
    /\ driver = "unprobed" /\ ready = FALSE
    /\ disk = [s \in Sectors |-> Blank(s)]
    /\ call = NoCall
    /\ dma = [i \in 1 .. Chunk |-> Blank(0)]
    /\ table = [lba |-> 0, count |-> 0, write |-> FALSE]
    /\ port = QuietPort /\ work = NoWork
-----------------------------------------------------------------------------
NewCall(lba, n, write, v, boot) ==
    [at |-> "check", lba |-> lba, left |-> n, write |-> write, boot |-> boot, from |-> lba,
     data |-> [i \in 1 .. n |-> IF write THEN <<v, lba + i - 1>> ELSE Blank(0)]]
TestRead == NewCall(0, 1, FALSE, "blank", TRUE)

(* ahci_init: the first implemented port with a SATA drive on it. *)
HasDisk(ports) == \E i \in DOMAIN ports : ports[i] = "sata"
Probe(ports) ==
    /\ driver = "unprobed"
    /\ driver' = IF HasDisk(ports) THEN "ahci" ELSE "pio"
    /\ call' = TestRead
    /\ UNCHANGED <<ready, disk, dma, table, port, work>>

(* storage_read_sectors and storage_write_sectors. *)
Start(lba, n, write, v) ==
    /\ ready /\ call.at \in {"idle", "done", "failed"}
    /\ n > 0 /\ lba + n <= NSectors
    /\ call' = NewCall(lba, n, write, v, FALSE)
    /\ UNCHANGED <<driver, ready, disk, dma, table, port, work>>

(* The end of a call; the test read decides which driver is used. *)
Ends(ok) ==
    /\ call' = [call EXCEPT !.at = IF ok THEN "done" ELSE "failed"]
    /\ ready' = (ready \/ (call.boot /\ ok))
    /\ driver' = IF call.boot /\ ~ok THEN "none" ELSE driver

FallBack ==
    /\ call' = TestRead
    /\ driver' = "pio"
    /\ UNCHANGED ready

AhciFails == IF call.boot THEN FallBack ELSE Ends(FALSE)

(* ahci_rw_sectors.  A port that stays busy refuses the command. *)
Count == Min({call.left, Chunk})
Done == Len(call.data) - call.left

PortBusy ==
    /\ driver = "ahci" /\ call.at = "check" /\ port.busy
    /\ AhciFails
    /\ UNCHANGED <<disk, dma, table, port, work>>

\* A slip, for MayIssue.
MayIssueAtOnce == TRUE

MayIssue == ~port.busy
Issue ==
    /\ driver = "ahci" /\ call.at = "check"
    /\ MayIssue
    /\ table' = [lba |-> call.lba, count |-> Count, write |-> call.write]
    /\ dma' = IF call.write THEN [i \in 1 .. Chunk |-> IF i <= Count THEN call.data[Done + i] ELSE dma[i]]
              ELSE dma
    /\ port' = [port EXCEPT !.ci = TRUE, !.error = FALSE]
    /\ call' = [call EXCEPT !.at = "wait"]
    /\ UNCHANGED <<driver, ready, disk, work>>

Copied ==
    IF call.write THEN call.data
    ELSE [i \in DOMAIN call.data |-> IF i \in Done + 1 .. Done + Count THEN dma[i - Done] ELSE call.data[i]]

Completed ==
    /\ driver = "ahci" /\ call.at = "wait"
    /\ ~port.ci /\ ~port.error
    /\ IF call.left > Count
       THEN /\ call' = [call EXCEPT !.at = "check", !.data = Copied, !.lba = @ + Count, !.left = @ - Count]
            /\ UNCHANGED <<driver, ready>>
       ELSE /\ call' = [call EXCEPT !.at = "done", !.data = Copied, !.left = 0]
            /\ ready' = TRUE
            /\ UNCHANGED driver
    /\ UNCHANGED <<disk, dma, table, port, work>>

(* The error bit, or a million polls: the command stays in its slot. *)
GivesUp ==
    /\ driver = "ahci" /\ call.at = "wait"
    /\ port.ci
    /\ AhciFails
    /\ UNCHANGED <<disk, dma, table, port, work>>
-----------------------------------------------------------------------------
(* The drive takes the command from the table, is busy, and moves the data.
   After an error the port runs nothing until it is restarted, which the
   driver never does. *)
DriveStarts ==
    /\ port.ci /\ ~port.busy /\ ~port.halted
    /\ work' = [on |-> TRUE, lba |-> table.lba, count |-> table.count, write |-> table.write]
    /\ port' = [port EXCEPT !.busy = TRUE]
    /\ UNCHANGED <<driver, ready, disk, call, dma, table>>

Within(i) == i \in 1 .. work.count
DriveMoves ==
    /\ work.on
    /\ disk' = IF work.write
               THEN [s \in Sectors |-> IF Within(s - work.lba + 1) THEN dma[s - work.lba + 1] ELSE disk[s]]
               ELSE disk
    /\ dma' = IF work.write THEN dma
              ELSE [i \in 1 .. Chunk |-> IF Within(i) THEN disk[work.lba + i - 1] ELSE dma[i]]
    /\ port' = [port EXCEPT !.busy = FALSE, !.ci = FALSE]
    /\ work' = NoWork
    /\ UNCHANGED <<driver, ready, call, table>>

DriveFails ==
    /\ work.on
    /\ port' = [port EXCEPT !.busy = FALSE, !.error = TRUE, !.halted = TRUE]
    /\ work' = NoWork
    /\ UNCHANGED <<driver, ready, disk, call, dma, table>>

(* ata_pio_read_sectors and ata_pio_write_sectors: each sector waits for the
   drive; what was moved before a failure stays moved. *)
PioSector ==
    LET i == Done + 1 IN
    /\ driver = "pio" /\ call.at = "check"
    /\ disk' = IF call.write THEN [disk EXCEPT ![call.lba] = call.data[i]] ELSE disk
    /\ IF call.left > 1
       THEN /\ call' = [call EXCEPT !.lba = @ + 1, !.left = @ - 1,
                                    !.data[i] = IF call.write THEN @ ELSE disk[call.lba]]
            /\ UNCHANGED <<driver, ready>>
       ELSE /\ call' = [call EXCEPT !.at = "done", !.left = 0,
                                    !.data[i] = IF call.write THEN @ ELSE disk[call.lba]]
            /\ ready' = TRUE
            /\ UNCHANGED driver
    /\ UNCHANGED <<dma, table, port, work>>

PioFails ==
    /\ driver = "pio" /\ call.at = "check"
    /\ Ends(FALSE)
    /\ UNCHANGED <<disk, dma, table, port, work>>

Next ==
    \/ \E p \in Ports : Probe(p)
    \/ \E lba \in Sectors, n \in 1 .. NSectors, w \in BOOLEAN, v \in Values : Start(lba, n, w, v)
    \/ PortBusy \/ Issue \/ Completed \/ GivesUp
    \/ DriveStarts \/ DriveMoves \/ DriveFails
    \/ PioSector \/ PioFails
    \/ driver = "none" /\ UNCHANGED vars

Spec == Init /\ [][Next]_vars
-----------------------------------------------------------------------------
TypeOK ==
    /\ driver \in {"unprobed", "ahci", "pio", "none"} /\ ready \in BOOLEAN
    /\ DOMAIN disk = Sectors /\ DOMAIN dma = 1 .. Chunk
    /\ port \in [ci : BOOLEAN, busy : BOOLEAN, error : BOOLEAN, halted : BOOLEAN]

(* A sector only ever holds what was meant for that sector: a command
   that timed out and is executed late, or a chunk in the bounce buffer when
   the next call comes, puts nothing into another place
   (drivers/ahci.c:270-356). *)
OnlyWhatWasWritten == \A s \in Sectors : disk[s][2] = s

(* A write that succeeded is on the disk in every sector and chunk, a read
   that succeeded returned the sectors it asked for, and nothing changes them
   until the next call: no earlier command is still on its way
   (drivers/ahci.c:270-390, storage.c:84-160). *)
DoneMeansDone ==
    call.at = "done" => \A i \in DOMAIN call.data : disk[call.from + i - 1] = call.data[i]
=============================================================================
