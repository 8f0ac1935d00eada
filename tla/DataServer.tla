----------------------------- MODULE DataServer -----------------------------
(***************************************************************************)
(* The data servers (hercules_ds_cmds.c, hercules_io_lib.c).  A server     *)
(* keeps one file per data handle and, in the file of handle 0, the last   *)
(* handle it gave out.  Bytes are small integers; a byte that was never    *)
(* written reads as 0.                                                     *)
(***************************************************************************)
EXTENDS Integers, Sequences, FiniteSets

CONSTANTS DSCount,    \* data servers are numbered from 0
          StripeSize  \* bytes of a stripe

ASSUME DataAssumption == DSCount \in Nat \ {0} /\ StripeSize \in Nat \ {0}

DataServers == 0..DSCount - 1
Invalid == 0          \* HFS_INVALID_HANDLE
FirstHandle == 256    \* HFS_FIRST_DATA_HANDLE

VARIABLES counter,  \* per server, the contents of the file of handle 0
          file      \* per server, handle to contents

dataVars == <<counter, file>>

DataInit ==
    /\ counter = [d \in DataServers |-> FirstHandle]
    /\ file = [d \in DataServers |-> [h \in {} |-> <<>>]]

-----------------------------------------------------------------------------
(* CMD_REQ_DS_ALLOC_HANDLE: readHandleFromFile, srvAllocDataHandle *)

\* Write the next handle back and create its file, which must not exist.
\* read is the counter as it was read.
NewFile(d, read) ==
    /\ counter' = [counter EXCEPT ![d] = read + 1]
    /\ file' = IF read + 1 \in DOMAIN file[d] THEN file
               ELSE [file EXCEPT ![d] =
                        [h \in DOMAIN @ \cup {read + 1} |-> IF h = read + 1 THEN <<>> ELSE @[h]]]

\* What the response carries: the status of the unlocking, always success, and
\* the handle, or HFS_INVALID_HANDLE if the file was there.
NewHandle(d, read) == IF read + 1 \in DOMAIN file[d] THEN Invalid ELSE read + 1

\* The disk fails: before the counter is written back, or after it.
DiskFails(d, read) ==
    /\ counter' \in {counter, [counter EXCEPT ![d] = read + 1]}
    /\ UNCHANGED file

-----------------------------------------------------------------------------
(* Stripes *)

\* srvReadStripe: at most one stripe, from its place; short at the end.
ReadStripe(d, h, stripe) ==
    LET from == stripe * StripeSize
        to == IF from + StripeSize < Len(file[d][h]) THEN from + StripeSize
              ELSE Len(file[d][h])
    IN SubSeq(file[d][h], from + 1, to)

\* srvWriteStripe: bytes at an offset into a stripe; a gap reads as zeros.
WriteStripe(d, h, stripe, offset, bytes) ==
    LET pos == stripe * StripeSize + offset
        old == file[d][h]
        size == IF pos + Len(bytes) > Len(old) THEN pos + Len(bytes) ELSE Len(old)
        Byte(i) == IF i > pos /\ i <= pos + Len(bytes) THEN bytes[i - pos]
                   ELSE IF i <= Len(old) THEN old[i] ELSE 0
    IN /\ file' = [file EXCEPT ![d][h] = [i \in 1..size |-> Byte(i)]]
       /\ UNCHANGED counter

\* srvGetExtentSize.
ExtentSize(d, h) == Len(file[d][h])
=============================================================================
