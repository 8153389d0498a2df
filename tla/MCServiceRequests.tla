-------------------------- MODULE MCServiceRequests --------------------------
(***************************************************************************)
(* Small instances of ServiceRequests: two or three requests, one or two   *)
(* semaphore files, and the kinds of request each run is about.            *)
(***************************************************************************)
EXTENDS ServiceRequests, TLC

CONSTANTS r1, r2, r3

Ask(kind, branch, migrate) ==
    [kind |-> kind, branch |-> branch, migrate |-> migrate]

OneBranch == {NoBranch}

Reads == {Ask("read", NoBranch, FALSE)}
Writes == {Ask("write", NoBranch, FALSE)}
ReadsAndWrites == Reads \cup Writes
Migrations == {Ask("write", NoBranch, TRUE), Ask("read", NoBranch, TRUE)}
ReadsWritesMigrations == ReadsAndWrites \cup Migrations
StatusRequests == {Ask("status", NoBranch, FALSE)}
AllKinds == ReadsAndWrites \cup StatusRequests

AlikeRequestsAndSlots == Permutations(Req) \cup Permutations(Slots)
=============================================================================
