------------------------------- MODULE KvStore -------------------------------
(***************************************************************************)
(* The disk store of session checkpoints (ds4_kvstore.c).  Processes share  *)
(* a directory without a lock: each writes records through a temporary and  *)
(* a rename, rewrites trailers and headers of committed records in place,   *)
(* evicts by an index it read earlier, and looks records up by the longest  *)
(* prefix of a prompt.  A step is what one process does between two points  *)
(* where another can change the directory.  A text is a sequence, its hash  *)
(* the text itself; ctx stands for every field the header is stamped with.  *)
(* The eviction score decays with time and hits: any record may be the      *)
(* victim.                                                                  *)
(***************************************************************************)
EXTENDS Integers, Sequences, FiniteSets, SequencesExt

CONSTANTS
  Procs,       \* processes on the directory
  Ctx,         \* the context size each one serves
  Texts,       \* texts that are stored and looked up
  Kinds,       \* reason families: "serial", "bank", "agent"
  Budget,      \* budget_bytes
  MaxStores,   \* bound on records written
  MaxLoads,    \* bound on lookups
  MaxFaults    \* bound on crashes and failed writes

ASSUME KvStoreAssumption ==
  /\ Ctx \in [Procs -> Nat \ {0}] /\ Texts \subseteq Seq(Nat) \ {<<>>} /\ IsFiniteSet(Texts)
  /\ Kinds \subseteq {"serial", "bank", "agent"}
  /\ {Budget, MaxStores, MaxLoads, MaxFaults} \subseteq Nat

VARIABLES
  file,   \* the files ever written: [text, ctx, kind, head, whole, trailer]
  dir,    \* the record under each text's name, 0 when there is none
  proc,   \* what each process is doing
  total,  \* what a process that evicts has counted
  since,  \* bytes others added since a process began to evict
  used    \* stores, loads and faults so far

vars == <<file, dir, proc, total, since, used>>

NoText == <<>>
Idle == [pc |-> "idle", text |-> NoText, kind |-> "serial", tools |-> FALSE, equal |-> FALSE, file |-> 0,
         head |-> [ctx |-> 0, kind |-> "serial", flag |-> FALSE], index |-> {},
         raced |-> FALSE, result |-> "none"]
Closed == [Idle EXCEPT !.pc = "closed"]

Heads == [ctx : Nat, kind : Kinds \cup {"serial"}, flag : BOOLEAN]
Entries == [text : Texts, head : Heads, size : Nat]
FileRec == [text : Texts, ctx : Nat, kind : Kinds \cup {"serial"}, head : Heads,
            whole : BOOLEAN, trailer : BOOLEAN]
PCs == {"closed", "idle", "replace", "stage", "refresh", "evict", "write", "rename",
        "trailer", "cut", "append", "flag", "open", "load", "touch", "hit"}
ProcRec == [pc : PCs, text : Texts \cup {NoText}, kind : Kinds \cup {"serial"}, tools : BOOLEAN,
            equal : BOOLEAN, file : Nat, head : Heads, index : SUBSET Entries, raced : BOOLEAN,
            result : {"none", "stored", "over", "loaded", "nologits", "wrecked"}]

Init ==
  /\ file = <<>> /\ dir = [t \in Texts |-> 0]
  /\ proc = [p \in Procs |-> Closed] /\ total = [p \in Procs |-> 0] /\ since = [p \in Procs |-> 0]
  /\ used = [stores |-> 0, loads |-> 0, faults |-> 0]

Go(p, at) == proc' = [proc EXCEPT ![p].pc = at]
Done(p, result) == proc' = [proc EXCEPT ![p] = [Idle EXCEPT !.result = result]]

-----------------------------------------------------------------------------
(* Records. *)

TrailerBytes(b) == IF b THEN 1 ELSE 0
Bytes(t, tools) == Len(t) + 1 + TrailerBytes(tools)
SizeOf(f) == Bytes(file[f].text, file[f].trailer)

\* ds4_kvstore_read_entry_file: a record shorter than its header says is not one.
Readable(f) == f # 0 /\ file[f].whole

\* kv_cache_refresh.  An entry keeps what the header and the size said.
Listed == {[text |-> t, head |-> file[dir[t]].head, size |-> SizeOf(dir[t])] :
             t \in {u \in Texts : Readable(dir[u])}}

\* Sizes are summed by counting bytes: the record of a text is its first so
\* many.  Listing is what an index says of them, Stored what the directory is.
Listing(index) == UNION {{e.text} \X (1..e.size) : e \in index}
Stored(d) == UNION {{t} \X (1..SizeOf(d[t])) : t \in {u \in Texts : Readable(d[u])}}

\* kv_entry_is_automatic_exact_replay: agent sessions are not.
Automatic(kind) == kind # "agent"

\* kv_cache_existing_compatible, up to its unlink.
Compatible(p, f, kind) ==
  file[f].head.ctx <= Ctx[p] /\ Automatic(file[f].head.kind) /\ Automatic(kind)

\* ds4_kvstore_file_size_fits: one percent of slack, rounded up.
Fits(n) == n + (n \div 100) + (IF n % 100 # 0 THEN 1 ELSE 0) <= Budget

\* What p adds while others have yet to rename.
Added(p, n) ==
  [q \in Procs |-> IF q # p /\ proc[q].pc \in {"evict", "write", "rename"} THEN since[q] + n ELSE 0]

-----------------------------------------------------------------------------
(* Storing: ds4_kvstore_store_live_prefix_text. *)

\* ds4_kvstore_open makes room before anything else; so does every store.
Open(p) ==
  /\ proc[p].pc = "closed"
  /\ proc' = [proc EXCEPT ![p] = [Idle EXCEPT !.pc = "refresh"]]
  /\ UNCHANGED <<file, dir, total, since, used>>

\* A store looks for a record of the same text.
Store(p, t, kind, tools) ==
  /\ proc[p].pc = "idle" /\ used.stores < MaxStores
  /\ LET there == Readable(dir[t])
         at == IF ~there THEN "stage" ELSE IF Compatible(p, dir[t], kind) THEN "trailer" ELSE "replace"
     IN proc' = [proc EXCEPT ![p] = [Idle EXCEPT !.pc = at, !.text = t, !.kind = kind, !.tools = tools]]
  /\ used' = [used EXCEPT !.stores = @ + 1]
  /\ UNCHANGED <<file, dir, total, since>>

\* An incompatible record is unlinked, by name.
Replace(p) ==
  /\ proc[p].pc = "replace"
  /\ dir' = [dir EXCEPT ![proc[p].text] = 0]
  /\ Go(p, "stage")
  /\ UNCHANGED <<file, total, since, used>>

\* The payload is staged, and a record that cannot fit is skipped.
Stage(p) ==
  /\ proc[p].pc = "stage"
  /\ IF Fits(Bytes(proc[p].text, proc[p].tools)) THEN Go(p, "refresh") ELSE Done(p, "none")
  /\ UNCHANGED <<file, dir, total, since, used>>

\* ds4_kvstore_evict.  The room the incoming record needs; none at open.
\* Mutant: the incoming record is left out.
Target_full(p) == Budget
Target(p) == Budget - (IF proc[p].text = NoText THEN 0 ELSE Bytes(proc[p].text, proc[p].tools))

Refresh(p) ==
  /\ proc[p].pc = "refresh"
  /\ proc' = [proc EXCEPT ![p].pc = "evict", ![p].index = Listed]
  /\ total' = [total EXCEPT ![p] = Cardinality(Listing(Listed))]
  /\ since' = [since EXCEPT ![p] = 0]
  /\ UNCHANGED <<file, dir, used>>

\* A name that is already gone ends the pass.
Evict(p) ==
  /\ proc[p].pc = "evict" /\ total[p] > Target(p)
  /\ \E e \in proc[p].index :
       LET gone == dir[e.text] = 0 IN
       /\ dir' = [dir EXCEPT ![e.text] = 0]
       /\ proc' = [proc EXCEPT ![p].index = @ \ {e}, ![p].raced = @ \/ gone]
       /\ total' = [total EXCEPT ![p] = IF gone \/ @ < e.size THEN 0 ELSE @ - e.size]
  /\ UNCHANGED <<file, since, used>>

Evicted(p) ==
  /\ proc[p].pc = "evict" /\ (total[p] <= Target(p) \/ proc[p].index = {})
  /\ total' = [total EXCEPT ![p] = 0]
  /\ IF proc[p].text = NoText THEN Done(p, "none") ELSE Go(p, "write")
  /\ UNCHANGED <<file, dir, since, used>>

\* The temporary is written; no lookup matches its name.
Write(p) ==
  /\ proc[p].pc = "write"
  /\ LET head == [ctx |-> Ctx[p], kind |-> proc[p].kind, flag |-> proc[p].tools]
     IN file' = Append(file, [text |-> proc[p].text, ctx |-> Ctx[p], kind |-> proc[p].kind, head |-> head,
                              whole |-> TRUE, trailer |-> proc[p].tools])
  /\ proc' = [proc EXCEPT ![p].pc = "rename", ![p].file = Len(file) + 1]
  /\ UNCHANGED <<dir, total, since, used>>

\* It is renamed over whatever has the name now.  The result says whether the
\* directory is then over budget for a reason of the process's own.
Over(p, d) == Cardinality(Stored(d)) > Budget + since[p]

Rename(p) ==
  LET d == [dir EXCEPT ![proc[p].text] = proc[p].file] IN
  /\ proc[p].pc = "rename"
  /\ dir' = d
  /\ Done(p, IF Over(p, d) /\ ~proc[p].raced THEN "over" ELSE "stored")
  /\ since' = Added(p, SizeOf(proc[p].file))
  /\ UNCHANGED <<file, total, used>>

\* Staging, writing or renaming fails, and the temporary is unlinked; or a
\* write of the trailer does, and the record stays as it is.
StoreFails(p) ==
  /\ proc[p].pc \in {"stage", "write", "rename", "cut", "append", "flag"} /\ used.faults < MaxFaults
  /\ Done(p, "none")
  /\ used' = [used EXCEPT !.faults = @ + 1]
  /\ UNCHANGED <<file, dir, total, since>>

-----------------------------------------------------------------------------
(* kv_cache_rewrite_trailer: in place, on the file the name has now. *)

OpenTrailer(p) ==
  LET f == dir[proc[p].text] IN
  /\ proc[p].pc = "trailer"
  /\ IF ~proc[p].tools \/ f = 0 THEN Done(p, "stored")
     ELSE proc' = [proc EXCEPT ![p].pc = "cut", ![p].file = f, ![p].head = file[f].head]
  /\ UNCHANGED <<file, dir, total, since, used>>

CutTrailer(p) ==
  /\ proc[p].pc = "cut"
  /\ file' = [file EXCEPT ![proc[p].file].trailer = FALSE]
  /\ Go(p, "append")
  /\ UNCHANGED <<dir, total, since, used>>

AppendTrailer(p) ==
  /\ proc[p].pc = "append"
  /\ file' = [file EXCEPT ![proc[p].file].trailer = TRUE]
  /\ since' = Added(p, TrailerBytes(TRUE))
  /\ Go(p, "flag")
  /\ UNCHANGED <<dir, total, used>>

\* The header goes last, as it was read but for the flag.
WriteFlag(p) ==
  /\ proc[p].pc = "flag"
  /\ file' = [file EXCEPT ![proc[p].file].head = [proc[p].head EXCEPT !.flag = TRUE]]
  /\ Done(p, "stored")
  /\ UNCHANGED <<dir, total, since, used>>

-----------------------------------------------------------------------------
(* Looking up: ds4_kvstore_try_load_text. *)

\* kv_find_text_prefix; a bank record has no logits for its own last token.
Usable(p, head, t, prompt) ==
  /\ Automatic(head.kind) /\ head.ctx <= Ctx[p]
  /\ IsPrefix(t, prompt) /\ (head.kind = "bank" => t # prompt)
Candidates(p, prompt) == {e \in Listed : Usable(p, e.head, e.text, prompt)}

Find(p, prompt) ==
  LET cand == Candidates(p, prompt) IN
  /\ proc[p].pc = "idle" /\ used.loads < MaxLoads
  /\ used' = [used EXCEPT !.loads = @ + 1]
  /\ IF cand = {} THEN Done(p, "none")
     ELSE \E e \in cand :
            /\ \A c \in cand : Len(c.text) <= Len(e.text)
            /\ proc' = [proc EXCEPT ![p] = [Idle EXCEPT !.pc = "open", !.text = e.text, !.head = e.head,
                                                        !.equal = e.text = prompt]]
  /\ UNCHANGED <<file, dir, total, since>>

\* The record is opened by name and its header compared with the entry.
\* Mutant: the header is taken as it is.
Reopened_any(head, entry, equal) == Automatic(head.kind)
Reopened(head, entry, equal) ==
  /\ Automatic(head.kind)
  /\ head.ctx = entry.ctx
  /\ head.kind = "bank" => ~equal

OpenRecord(p) ==
  LET f == dir[proc[p].text] IN
  /\ proc[p].pc = "open"
  /\ IF f # 0 /\ Reopened(file[f].head, proc[p].head, proc[p].equal)
     THEN proc' = [proc EXCEPT ![p].pc = "load", ![p].file = f, ![p].head = file[f].head]
     ELSE Done(p, "none")
  /\ UNCHANGED <<file, dir, total, since, used>>

\* ds4_session_load_payload, from the open file.  A payload that does not load
\* has overwritten the session, which is given up; one that is not what its
\* header says is unlinked, by name.
Loads(p, f) == file[f].whole /\ file[f].ctx <= Ctx[p]
LoadPayload(p) ==
  LET f == proc[p].file
      true == file[f].ctx = proc[p].head.ctx
      lacks == file[f].kind = "bank" /\ proc[p].equal
  IN
  /\ proc[p].pc = "load"
  /\ IF Loads(p, f) /\ true
     THEN proc' = [proc EXCEPT ![p].pc = "touch", ![p].result = IF lacks THEN "nologits" ELSE "loaded"]
     ELSE Done(p, "wrecked")
  /\ dir' = IF Loads(p, f) /\ ~true THEN [dir EXCEPT ![proc[p].text] = 0] ELSE dir
  /\ UNCHANGED <<file, total, since, used>>

\* ds4_kvstore_touch_file: the header of whatever has the name now is read
\* and written back with the hit.
\* Mutant: the header of the record that was loaded is written.
TouchRead_loaded(p) ==
  /\ proc[p].pc = "touch"
  /\ IF dir[proc[p].text] = 0 THEN Done(p, proc[p].result)
     ELSE proc' = [proc EXCEPT ![p].pc = "hit", ![p].file = dir[proc[p].text]]
  /\ UNCHANGED <<file, dir, total, since, used>>
TouchRead(p) ==
  LET f == dir[proc[p].text] IN
  /\ proc[p].pc = "touch"
  /\ IF f = 0 THEN Done(p, proc[p].result)
     ELSE proc' = [proc EXCEPT ![p].pc = "hit", ![p].file = f, ![p].head = file[f].head]
  /\ UNCHANGED <<file, dir, total, since, used>>

TouchWrite(p) ==
  /\ proc[p].pc = "hit"
  /\ file' = [file EXCEPT ![proc[p].file].head = proc[p].head]
  /\ Done(p, proc[p].result)
  /\ UNCHANGED <<dir, total, since, used>>

-----------------------------------------------------------------------------
(* Crashes. *)

\* A process dies at any point and may be started again; what it wrote stays.
Crash(p) ==
  /\ proc[p].pc # "closed" /\ used.faults < MaxFaults
  /\ proc' = [proc EXCEPT ![p] = Closed] /\ total' = [total EXCEPT ![p] = 0]
  /\ used' = [used EXCEPT !.faults = @ + 1]
  /\ UNCHANGED <<file, dir, since>>

\* The machine goes down.  Nothing is synced, so a record may be found short.
PowerCut(t) ==
  /\ used.faults < MaxFaults /\ Readable(dir[t])
  /\ file' = [file EXCEPT ![dir[t]] = [@ EXCEPT !.whole = FALSE, !.trailer = FALSE]]
  /\ proc' = [p \in Procs |-> Closed] /\ total' = [p \in Procs |-> 0]
  /\ used' = [used EXCEPT !.faults = @ + 1]
  /\ UNCHANGED <<dir, since>>

Next ==
  \/ \E p \in Procs :
       \/ Open(p) \/ Replace(p) \/ Stage(p) \/ Refresh(p) \/ Evict(p) \/ Evicted(p)
       \/ Write(p) \/ Rename(p) \/ StoreFails(p)
       \/ OpenTrailer(p) \/ CutTrailer(p) \/ AppendTrailer(p) \/ WriteFlag(p)
       \/ OpenRecord(p) \/ LoadPayload(p) \/ TouchRead(p) \/ TouchWrite(p) \/ Crash(p)
       \/ \E t \in Texts : Find(p, t) \/ \E k \in Kinds, b \in BOOLEAN : Store(p, t, k, b)
  \/ \E t \in Texts : PowerCut(t)

Spec == Init /\ [][Next]_vars

-----------------------------------------------------------------------------
(* Properties. *)

TypeOK ==
  /\ file \in Seq(FileRec) /\ dir \in [Texts -> 0..Len(file)]
  /\ proc \in [Procs -> ProcRec] /\ \A p \in Procs : proc[p].file <= Len(file)
  /\ since \in [Procs -> Nat]

\* A record under a text's name holds that text, and its header describes the
\* payload behind it, whatever trailers, hits, evictions and replacements of
\* other processes fell between reading a header and writing it back: a header
\* that describes another payload makes every later lookup lose its session.
RecordsTrue ==
  /\ TypeOK
  /\ \A t \in Texts : dir[t] # 0 =>
       LET f == file[dir[t]] IN f.text = t /\ f.head.ctx = f.ctx /\ f.head.kind = f.kind

\* A lookup never costs the session: a record that changed between the look at
\* the index and the read is refused while the session is still whole, a short
\* record is never opened, and a record that is its prompt's whole text has
\* logits.
LookupSafe == \A p \in Procs : proc[p].result \notin {"wrecked", "nologits"}

\* A store leaves the records within the budget, but for what other processes
\* added since it looked, unless another process had already unlinked a victim:
\* an unlink that fails ends the pass.  What a pass has counted never wraps.
BudgetKept == \A p \in Procs : total[p] \in Nat /\ proc[p].result # "over"
=============================================================================
