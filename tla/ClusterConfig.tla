---------------------------- MODULE ClusterConfig ---------------------------
(***************************************************************************)
(* load_cluster_config of mpc_runner.c, one step per entry of the nodes    *)
(* array.  An entry is its id, or Malformed when its id, host or port is   *)
(* missing or does not parse.  A file may be cut off in the middle of an   *)
(* entry: the loop does not find the closing brace and leaves.             *)
(***************************************************************************)
EXTENDS Naturals, Sequences, FiniteSets

CONSTANTS
  RUNNER_MAX_PARTIES,
  MaxEntries      \* bound: how many entries a file has

ASSUME ConfigAssumption ==
  RUNNER_MAX_PARTIES \in Nat \ {0} /\ MaxEntries \in Nat

Malformed == RUNNER_MAX_PARTIES + 1
Entry == 0 .. Malformed     \* with one id that is too large

(* The entries that are closed, and what is wrong with the file as a whole *)
(* or with its end.                                                        *)
File == [entries : UNION {[1 .. n -> Entry] : n \in 0 .. MaxEntries},
         defect : {"none", "unreadable or empty", "too large", "no array",
                   "cut off"}]

VARIABLES
  file,
  parsed,     \* how many entries the loop has taken
  ips,        \* the ids with an address
  max_id,     \* max_id + 1
  loaded      \* "loading", "refused" or "loaded"

loader == <<file, parsed, ips, max_id, loaded>>

LoaderInit ==
  /\ file \in File
  /\ parsed = 0 /\ ips = {} /\ max_id = 0
  /\ loaded = "loading"

Refuse == loaded' = "refused" /\ UNCHANGED <<file, parsed, ips, max_id>>

(* fopen, fread, the buffer's limit and the search for `['.                *)
RefuseFile ==
  /\ loaded = "loading" /\ parsed = 0
  /\ file.defect \in {"unreadable or empty", "too large", "no array"}
  /\ Refuse

Readable == loaded = "loading" /\ file.defect \in {"none", "cut off"}
id == file.entries[parsed + 1]

RefuseEntry ==
  /\ Readable /\ parsed < Len(file.entries)
  /\ id >= RUNNER_MAX_PARTIES \/ id \in ips
  /\ Refuse

(* Mutant: an id that is there already is overwritten.                     *)
TakeEntryAgain ==
  /\ Readable /\ parsed < Len(file.entries)
  /\ id < RUNNER_MAX_PARTIES
  /\ parsed' = parsed + 1
  /\ ips' = ips \cup {id}
  /\ max_id' = IF id + 1 > max_id THEN id + 1 ELSE max_id
  /\ UNCHANGED <<file, loaded>>

TakeEntry ==
  /\ Readable /\ parsed < Len(file.entries)
  /\ id < RUNNER_MAX_PARTIES /\ id \notin ips
  /\ parsed' = parsed + 1
  /\ ips' = ips \cup {id}
  /\ max_id' = IF id + 1 > max_id THEN id + 1 ELSE max_id
  /\ UNCHANGED <<file, loaded>>

(* The loop has left, with or without an entry that is not closed: there   *)
(* must have been entries, and no gap in their ids.                        *)
Check ==
  /\ Readable /\ parsed = Len(file.entries)
  /\ IF max_id = 0 \/ ips # 0 .. (max_id - 1)
     THEN loaded' = "refused" ELSE loaded' = "loaded"
  /\ UNCHANGED <<file, parsed, ips, max_id>>

LoaderNext == RefuseFile \/ RefuseEntry \/ TakeEntry \/ Check

-----------------------------------------------------------------------------
(* The ids of the closed entries are 0 .. n-1, in any order.               *)
Numbers(entries, n) ==
  Len(entries) = n /\ {entries[k] : k \in 1 .. n} = 0 .. (n - 1)

(* The loader accepts exactly the files whose closed entries number the    *)
(* parties 0 .. N-1 in some order, with N within the compiled limit, and   *)
(* N is their number: all parties that load one file agree on N and on who *)
(* is who (mpc_runner.c:63-161).                                           *)
LoaderExact ==
  loaded # "loading" =>
    (loaded = "loaded" <=>
       /\ file.defect \in {"none", "cut off"}
       /\ max_id \in 1 .. RUNNER_MAX_PARTIES
       /\ Numbers(file.entries, max_id))
=============================================================================
