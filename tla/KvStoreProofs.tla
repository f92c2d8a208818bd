---------------------------- MODULE KvStoreProofs ----------------------------
(***************************************************************************)
(* The disk store, proved for any number of processes, context sizes,       *)
(* texts and records: a record under a text's name is that text's and its   *)
(* header describes its payload, a lookup never costs the session, and a    *)
(* store keeps the budget.                                                  *)
(***************************************************************************)
EXTENDS KvStore, SequenceTheorems, FiniteSetTheorems, TLAPS

-----------------------------------------------------------------------------
(* The inductive invariant.  Its parts speak of a process record x, a        *)
(* sequence of files fl and a directory d, so that one lemma serves every    *)
(* step.                                                                    *)

\* A header describes the payload of file g.
Describes(head, g) == head.ctx = g.ctx /\ head.kind = g.kind

NamesTrue == \A t \in Texts : dir[t] # 0 => file[dir[t]].text = t
HeadsTrue == \A f \in 1..Len(file) : Describes(file[f].head, file[f])

\* A process that is about to put a file under a name, to write into a file
\* or to load it has one, and holds the text of it.
Holds(x, fl) ==
  /\ x.pc \in {"rename", "cut", "append", "flag", "load", "hit"} => x.file # 0
  /\ x.pc \in {"replace", "stage", "write", "rename", "trailer", "open", "load", "touch"} => x.text \in Texts
  /\ x.pc = "rename" => fl[x.file].text = x.text /\ fl[x.file].whole

\* A header a process read and will write back, or judges a payload by,
\* describes the file it was read from, whatever the name has become since.
Recalls(x, fl) ==
  x.pc \in {"cut", "append", "flag", "load", "hit"} => Describes(x.head, fl[x.file])

\* What a lookup has established when it opens and when it loads.
Looks(p, x, fl, d) ==
  /\ x.pc = "open" => x.head.ctx <= Ctx[p] /\ (d[x.text] # 0 => fl[d[x.text]].whole)
  /\ x.pc = "load" => x.head.ctx <= Ctx[p] /\ fl[x.file].whole /\ (x.head.kind = "bank" => ~x.equal)
  /\ x.result \notin {"wrecked", "nologits"}

StoreInv ==
  /\ TypeOK /\ NamesTrue /\ HeadsTrue
  /\ \A p \in Procs : Holds(proc[p], file) /\ Recalls(proc[p], file) /\ Looks(p, proc[p], file, dir)

-----------------------------------------------------------------------------
(* Types. *)

LEMMA IdleType == Idle \in ProcRec /\ Closed \in ProcRec
BY DEF Idle, Closed, ProcRec, PCs, Heads, NoText

\* The record of a process that is done.
LEMMA DoneType ==
  ASSUME NEW v \in {"none", "stored", "over", "loaded"}
  PROVE  LET x == [Idle EXCEPT !.result = v]
         IN  x \in ProcRec /\ x.pc = "idle" /\ x.file = 0 /\ x.result = v
BY IdleType DEF Idle, ProcRec

LEMMA ProcSet ==
  ASSUME NEW x \in ProcRec
  PROVE  /\ \A v \in PCs : [x EXCEPT !.pc = v] \in ProcRec
         /\ \A v \in Texts : [x EXCEPT !.text = v] \in ProcRec
         /\ \A v \in Kinds : [x EXCEPT !.kind = v] \in ProcRec
         /\ \A v \in BOOLEAN : /\ [x EXCEPT !.tools = v] \in ProcRec
                               /\ [x EXCEPT !.equal = v] \in ProcRec
                               /\ [x EXCEPT !.raced = v] \in ProcRec
         /\ \A v \in Nat : [x EXCEPT !.file = v] \in ProcRec
         /\ \A v \in Heads : [x EXCEPT !.head = v] \in ProcRec
         /\ \A v \in SUBSET Entries : [x EXCEPT !.index = v] \in ProcRec
         /\ \A v \in {"none", "stored", "over", "loaded"} : [x EXCEPT !.result = v] \in ProcRec
BY DEF ProcRec

LEMMA FieldTypes ==
  /\ \A x \in ProcRec : /\ x.pc \in PCs /\ x.text \in Texts \cup {NoText} /\ x.kind \in Kinds \cup {"serial"}
                        /\ x.tools \in BOOLEAN /\ x.file \in Nat /\ x.head \in Heads
                        /\ x.index \in SUBSET Entries
  /\ \A g \in FileRec : /\ g.text \in Texts /\ g.ctx \in Nat /\ g.kind \in Kinds \cup {"serial"}
                        /\ g.head \in Heads /\ g.whole \in BOOLEAN /\ g.trailer \in BOOLEAN
  /\ \A h \in Heads : h.ctx \in Nat /\ h.kind \in Kinds \cup {"serial"} /\ h.flag \in BOOLEAN
BY DEF ProcRec, FileRec, Heads

\* The size of a record is a number.
LEMMA BytesType ==
  ASSUME NEW t \in Texts, NEW b \in BOOLEAN PROVE Bytes(t, b) \in Nat
BY KvStoreAssumption DEF Bytes, TrailerBytes

LEMMA SizeType ==
  ASSUME TypeOK, NEW f \in 1..Len(file) PROVE SizeOf(f) \in Nat
<1>1. file[f] \in FileRec
  BY ElementOfSeq DEF TypeOK
<1> QED BY <1>1, FieldTypes, BytesType DEF SizeOf

\* Entries of the index are typed, and each is a record of the directory.
LEMMA ListedType ==
  ASSUME TypeOK
  PROVE  /\ Listed \in SUBSET Entries
         /\ \A e \in Listed : dir[e.text] # 0 /\ file[dir[e.text]].whole /\ e.head = file[dir[e.text]].head
<1> SUFFICES ASSUME NEW t \in Texts, Readable(dir[t])
             PROVE  /\ dir[t] \in 1..Len(file)
                    /\ [text |-> t, head |-> file[dir[t]].head, size |-> SizeOf(dir[t])] \in Entries
  BY DEF Listed, Readable
<1>1. dir[t] \in 1..Len(file)
  BY DEF TypeOK, Readable
<1>2. file[dir[t]] \in FileRec
  BY <1>1, ElementOfSeq DEF TypeOK
<1> QED BY <1>1, <1>2, SizeType, FieldTypes DEF Entries

LEMMA AddedType ==
  ASSUME TypeOK, NEW p, NEW n \in Nat PROVE Added(p, n) \in [Procs -> Nat]
BY DEF TypeOK, Added

-----------------------------------------------------------------------------
(* A step of one process: it may replace its own record by x, take names     *)
(* away or give one to a whole file of that text, write new files, and       *)
(* rewrite headers and trailers, not payloads, of the files there are.       *)

Kept(g, h) == g.text = h.text /\ g.ctx = h.ctx /\ g.kind = h.kind /\ g.whole = h.whole

LEMMA StoreStep ==
  ASSUME StoreInv, NEW p \in Procs, NEW x \in ProcRec,
         proc' = [proc EXCEPT ![p] = x], since' \in [Procs -> Nat],
         file' \in Seq(FileRec), Len(file) <= Len(file'),
         dir' \in [Texts -> 0..Len(file')], x.file <= Len(file'),
         \A f \in 1..Len(file) : Kept(file'[f], file[f]),
         \A f \in 1..Len(file') : Describes(file'[f].head, file'[f]),
         \A t \in Texts : dir'[t] \in {0, dir[t]} \/ (file'[dir'[t]].text = t /\ file'[dir'[t]].whole),
         Holds(x, file'), Recalls(x, file'), Looks(p, x, file', dir')
  PROVE  StoreInv'
<1>1. /\ Len(file) \in Nat /\ Len(file') \in Nat /\ dir \in [Texts -> 0..Len(file)]
      /\ proc \in [Procs -> ProcRec] /\ \A q \in Procs : proc[q].file \in 0..Len(file)
  BY LenProperties, FieldTypes DEF StoreInv, TypeOK
<1>2. proc' \in [Procs -> ProcRec] /\ proc'[p] = x /\ \A q \in Procs : q # p => proc'[q] = proc[q]
  BY <1>1
<1>3. TypeOK'
  BY <1>1, <1>2 DEF TypeOK
<1>4. NamesTrue'
  <2> SUFFICES ASSUME NEW t \in Texts, dir'[t] # 0 PROVE file'[dir'[t]].text = t
    BY DEF NamesTrue
  <2>1. CASE dir'[t] = dir[t]
    BY <1>1, <2>1 DEF StoreInv, NamesTrue, Kept
  <2> QED BY <2>1
<1>5. HeadsTrue'
  BY DEF HeadsTrue, Describes
<1>6. ASSUME NEW q \in Procs
      PROVE  Holds(proc'[q], file') /\ Recalls(proc'[q], file') /\ Looks(q, proc'[q], file', dir')
  <2>1. CASE q = p
    BY <1>2, <2>1
  <2>2. CASE q # p
    <3> DEFINE y == proc[q]
    <3>1. proc'[q] = y /\ y \in ProcRec /\ y.file \in 0..Len(file)
      BY <1>1, <1>2, <2>2
    <3>2. Holds(y, file) /\ Recalls(y, file) /\ Looks(q, y, file, dir)
      BY DEF StoreInv
    <3> HIDE DEF y
    <3>3. y.file # 0 => Kept(file'[y.file], file[y.file])
      BY <1>1, <3>1
    <3>4. Holds(y, file')
      BY <3>2, <3>3 DEF Holds, Kept
    <3>5. Recalls(y, file')
      BY <3>2, <3>3 DEF Holds, Recalls, Kept, Describes
    <3>6. y.pc = "open" => y.text \in Texts
      BY <3>2 DEF Holds
    <3>7. y.pc = "open" /\ dir'[y.text] # 0 => file'[dir'[y.text]].whole
      <4> SUFFICES ASSUME y.pc = "open", dir'[y.text] # 0, dir'[y.text] = dir[y.text]
                   PROVE  file'[dir'[y.text]].whole
        BY <3>6
      <4>1. dir[y.text] \in 1..Len(file) /\ file[dir[y.text]].whole
        BY <1>1, <3>2, <3>6 DEF Looks
      <4> QED BY <4>1 DEF Kept
    <3>8. y.pc = "load" => file'[y.file].whole
      BY <3>2, <3>3 DEF Holds, Looks, Kept
    <3> QED BY <3>1, <3>2, <3>4, <3>5, <3>7, <3>8 DEF Looks
  <2> QED BY <2>1, <2>2
<1>7. (\A q \in Procs : Holds(proc[q], file) /\ Recalls(proc[q], file) /\ Looks(q, proc[q], file, dir))'
  BY <1>6 DEF Holds, Recalls, Looks, Describes
<1> QED BY <1>3, <1>4, <1>5, <1>7 DEF StoreInv

\* Steps that leave the files alone and only take names away.
LEMMA QuietStep ==
  ASSUME StoreInv, NEW p \in Procs, NEW x \in ProcRec,
         proc' = [proc EXCEPT ![p] = x], since' \in [Procs -> Nat], file' = file,
         dir' \in [Texts -> 0..Len(file)], \A t \in Texts : dir'[t] \in {0, dir[t]},
         x.file <= Len(file), Holds(x, file), Recalls(x, file), Looks(p, x, file, dir')
  PROVE  StoreInv'
<1>1. file \in Seq(FileRec) /\ Len(file) \in Nat
  BY LenProperties DEF StoreInv, TypeOK
<1>2. /\ \A f \in 1..Len(file) : Kept(file'[f], file[f])
      /\ \A f \in 1..Len(file') : Describes(file'[f].head, file'[f])
  BY DEF Kept, StoreInv, HeadsTrue
<1>3. Holds(x, file') /\ Recalls(x, file') /\ Looks(p, x, file', dir')
  OBVIOUS
<1>4. /\ file' \in Seq(FileRec) /\ Len(file) <= Len(file') /\ x.file <= Len(file')
      /\ dir' \in [Texts -> 0..Len(file')]
  BY <1>1
<1> QED BY <1>2, <1>3, <1>4, StoreStep

\* A process is done: a step that leaves the files alone.
LEMMA DoneStep ==
  ASSUME StoreInv, NEW p \in Procs, NEW v \in {"none", "stored", "over", "loaded"}, Done(p, v),
         since' \in [Procs -> Nat], file' = file,
         dir' \in [Texts -> 0..Len(file)], \A t \in Texts : dir'[t] \in {0, dir[t]}
  PROVE  StoreInv'
<1> DEFINE x == [Idle EXCEPT !.result = v]
<1>1. x \in ProcRec /\ x.pc = "idle" /\ x.file = 0 /\ x.result = v
  BY DoneType
<1>2. proc' = [proc EXCEPT ![p] = x]
  BY DEF Done
<1> HIDE DEF x
<1>3. x.file <= Len(file)
  BY <1>1, LenProperties DEF StoreInv, TypeOK
<1>4. Holds(x, file) /\ Recalls(x, file) /\ Looks(p, x, file, dir')
  BY <1>1 DEF Holds, Recalls, Looks
<1> QED BY <1>1, <1>2, <1>3, <1>4, QuietStep

\* A process goes on to a point that needs nothing but its text.
LEMMA GoStep ==
  ASSUME StoreInv, NEW p \in Procs, NEW at \in {"stage", "refresh", "write"}, Go(p, at),
         at # "refresh" => proc[p].text \in Texts,
         since' = since, file' = file,
         dir' \in [Texts -> 0..Len(file)], \A t \in Texts : dir'[t] \in {0, dir[t]}
  PROVE  StoreInv'
<1> DEFINE x == [proc[p] EXCEPT !.pc = at]
<1>1. proc[p] \in ProcRec /\ since \in [Procs -> Nat] /\ proc[p].file <= Len(file) /\ at \in PCs
  BY DEF StoreInv, TypeOK, PCs
<1>2. x \in ProcRec
  BY <1>1, ProcSet
<1>6. x.pc = at /\ x.file = proc[p].file /\ x.text = proc[p].text /\ x.result = proc[p].result
  BY <1>1 DEF ProcRec
<1>3. proc' = [proc EXCEPT ![p] = x]
  BY DEF Go
<1>4. proc[p].result \notin {"wrecked", "nologits"}
  BY DEF StoreInv, Looks
<1> HIDE DEF x
<1>5. Holds(x, file) /\ Recalls(x, file) /\ Looks(p, x, file, dir')
  BY <1>4, <1>6 DEF Holds, Recalls, Looks
<1> QED BY <1>1, <1>2, <1>3, <1>5, <1>6, QuietStep

LEMMA InitInv == Init => StoreInv
<1> SUFFICES ASSUME Init PROVE StoreInv
  OBVIOUS
<1>1. file \in Seq(FileRec) /\ Len(file) = 0
  BY DEF Init
<1>2. Closed \in ProcRec /\ Closed.pc = "closed" /\ Closed.file = 0 /\ Closed.result = "none"
  BY IdleType DEF Closed, Idle
<1>3. proc \in [Procs -> ProcRec] /\ \A p \in Procs : proc[p] = Closed
  BY <1>2 DEF Init
<1>4. TypeOK
  BY <1>1, <1>2, <1>3 DEF Init, TypeOK
<1>5. NamesTrue /\ HeadsTrue
  BY <1>1 DEF Init, NamesTrue, HeadsTrue
<1>6. \A p \in Procs : Holds(proc[p], file) /\ Recalls(proc[p], file) /\ Looks(p, proc[p], file, dir)
  BY <1>2, <1>3 DEF Holds, Recalls, Looks
<1> QED BY <1>4, <1>5, <1>6 DEF StoreInv

\* Facts every step starts from.
LEMMA StoreFacts ==
  ASSUME StoreInv, NEW p \in Procs
  PROVE  /\ file \in Seq(FileRec) /\ Len(file) \in Nat /\ dir \in [Texts -> 0..Len(file)]
         /\ since \in [Procs -> Nat] /\ proc \in [Procs -> ProcRec]
         /\ proc[p] \in ProcRec /\ proc[p].file \in 0..Len(file)
         /\ \A f \in 1..Len(file) : file[f] \in FileRec /\ file[f].head \in Heads /\ Describes(file[f].head, file[f])
         /\ Holds(proc[p], file) /\ Recalls(proc[p], file) /\ Looks(p, proc[p], file, dir)
<1>1. file \in Seq(FileRec) /\ Len(file) \in Nat
  BY LenProperties DEF StoreInv, TypeOK
<1>2. \A f \in 1..Len(file) : file[f] \in FileRec
  BY <1>1, ElementOfSeq
<1> QED BY <1>1, <1>2, FieldTypes DEF StoreInv, TypeOK, HeadsTrue

-----------------------------------------------------------------------------
(* Storing. *)

LEMMA OpenInv == ASSUME StoreInv, NEW p \in Procs, Open(p) PROVE StoreInv'
<1> DEFINE x == [Idle EXCEPT !.pc = "refresh"]
<1>1. x \in ProcRec /\ x.pc = "refresh" /\ x.file = 0 /\ x.result = "none"
  BY IdleType, ProcSet DEF Idle, PCs
<1>2. /\ proc' = [proc EXCEPT ![p] = x] /\ file' = file /\ dir' = dir /\ since' = since
  BY DEF Open
<1> HIDE DEF x
<1>3. Holds(x, file) /\ Recalls(x, file) /\ Looks(p, x, file, dir') /\ x.file <= Len(file)
  BY <1>1, StoreFacts DEF Holds, Recalls, Looks
<1> QED BY <1>1, <1>2, <1>3, StoreFacts, QuietStep

LEMMA StoreInvStep ==
  ASSUME StoreInv, NEW p \in Procs, NEW t \in Texts, NEW kind \in Kinds, NEW tools \in BOOLEAN,
         Store(p, t, kind, tools)
  PROVE  StoreInv'
<1> DEFINE at == IF ~Readable(dir[t]) THEN "stage"
                 ELSE IF Compatible(p, dir[t], kind) THEN "trailer" ELSE "replace"
           y == [[Idle EXCEPT !.pc = at] EXCEPT !.text = t]
           x == [[y EXCEPT !.kind = kind] EXCEPT !.tools = tools]
<1>1. at \in {"stage", "trailer", "replace"} /\ at \in PCs
  BY DEF PCs
<1>2. /\ proc' = [proc EXCEPT ![p] = x] /\ file' = file /\ dir' = dir /\ since' = since
  BY DEF Store
<1> HIDE DEF at
<1>3. y \in ProcRec /\ y.pc = at /\ y.file = 0 /\ y.result = "none" /\ y.text = t
  BY <1>1, IdleType, ProcSet DEF Idle
<1> HIDE DEF y
<1>4. x \in ProcRec /\ x.pc = at /\ x.file = 0 /\ x.result = "none" /\ x.text = t
  <2>1. x \in ProcRec
    BY <1>3, ProcSet
  <2>2. x.pc = at /\ x.file = 0 /\ x.result = "none" /\ x.text = t
    BY <1>3 DEF ProcRec
  <2> QED BY <2>1, <2>2
<1> HIDE DEF x
<1>5. Holds(x, file) /\ Recalls(x, file) /\ Looks(p, x, file, dir') /\ x.file <= Len(file)
  BY <1>1, <1>4, StoreFacts DEF Holds, Recalls, Looks
<1> QED BY <1>2, <1>4, <1>5, StoreFacts, QuietStep

LEMMA ReplaceInv == ASSUME StoreInv, NEW p \in Procs, Replace(p) PROVE StoreInv'
<1>1. proc[p].text \in Texts
  BY DEF Replace, StoreInv, Holds
<1>2. dir' \in [Texts -> 0..Len(file)] /\ \A t \in Texts : dir'[t] \in {0, dir[t]}
  BY <1>1, StoreFacts DEF Replace
<1> QED BY <1>1, <1>2, GoStep DEF Replace

LEMMA StageInv == ASSUME StoreInv, NEW p \in Procs, Stage(p) PROVE StoreInv'
<1>1. dir' = dir /\ file' = file /\ since' = since /\ dir \in [Texts -> 0..Len(file)] /\ since \in [Procs -> Nat]
  BY StoreFacts DEF Stage
<1>2. CASE Go(p, "refresh")
  BY <1>1, <1>2, GoStep
<1>3. CASE Done(p, "none")
  BY <1>1, <1>3, DoneStep
<1> QED BY <1>2, <1>3 DEF Stage

LEMMA RefreshInv == ASSUME StoreInv, NEW p \in Procs, Refresh(p) PROVE StoreInv'
<1> DEFINE x == [[proc[p] EXCEPT !.pc = "evict"] EXCEPT !.index = Listed]
<1>1. proc[p] \in ProcRec /\ Listed \in SUBSET Entries /\ "evict" \in PCs
  BY StoreFacts, ListedType DEF StoreInv, PCs
<1>2. x \in ProcRec
  BY <1>1, ProcSet
<1>3. /\ x.pc = "evict" /\ x.file = proc[p].file /\ x.result = proc[p].result
  BY <1>1 DEF ProcRec
<1>4. proc' = [proc EXCEPT ![p] = x] /\ file' = file /\ dir' = dir
  BY StoreFacts DEF Refresh
<1>5. since' \in [Procs -> Nat]
  BY StoreFacts DEF Refresh
<1> HIDE DEF x
<1>6. Holds(x, file) /\ Recalls(x, file) /\ Looks(p, x, file, dir') /\ x.file <= Len(file)
  BY <1>3, StoreFacts DEF Holds, Recalls, Looks
<1> QED BY <1>2, <1>4, <1>5, <1>6, StoreFacts, QuietStep

LEMMA EvictInv == ASSUME StoreInv, NEW p \in Procs, Evict(p) PROVE StoreInv'
<1> PICK e \in proc[p].index :
      /\ dir' = [dir EXCEPT ![e.text] = 0]
      /\ proc' = [proc EXCEPT ![p].index = @ \ {e}, ![p].raced = @ \/ dir[e.text] = 0]
  BY DEF Evict
<1> DEFINE i == proc[p].index \ {e}
           b == proc[p].raced \/ dir[e.text] = 0
           x == [[proc[p] EXCEPT !.index = i] EXCEPT !.raced = b]
<1>1. proc[p] \in ProcRec /\ i \in SUBSET Entries /\ b \in BOOLEAN /\ proc[p].pc = "evict"
  BY StoreFacts, FieldTypes DEF Evict
<1>2. proc' = [proc EXCEPT ![p] = x] /\ file' = file /\ since' = since
  BY StoreFacts DEF Evict
<1> HIDE DEF i, b
<1>3. x \in ProcRec
  BY <1>1, ProcSet
<1>4. x.pc = "evict" /\ x.file = proc[p].file /\ x.result = proc[p].result
  BY <1>1 DEF ProcRec
<1>5. dir' \in [Texts -> 0..Len(file)] /\ \A t \in Texts : dir'[t] \in {0, dir[t]}
  <2>1. dir \in [Texts -> 0..Len(file)] /\ 0 \in 0..Len(file)
    BY StoreFacts
  <2> QED BY <2>1
<1> HIDE DEF x
<1>6. Holds(x, file) /\ Recalls(x, file) /\ Looks(p, x, file, dir') /\ x.file <= Len(file)
  BY <1>4, StoreFacts DEF Holds, Recalls, Looks
<1> QED BY <1>2, <1>3, <1>5, <1>6, StoreFacts, QuietStep

LEMMA EvictedInv == ASSUME StoreInv, NEW p \in Procs, Evicted(p) PROVE StoreInv'
<1>1. dir' = dir /\ file' = file /\ since' = since /\ dir \in [Texts -> 0..Len(file)] /\ since \in [Procs -> Nat]
  BY StoreFacts DEF Evicted
<1>2. CASE proc[p].text = NoText
  <2>1. Done(p, "none")
    BY <1>2 DEF Evicted
  <2> QED BY <1>1, <2>1, DoneStep
<1>3. CASE proc[p].text # NoText
  <2>1. Go(p, "write") /\ proc[p].text \in Texts
    BY <1>3, StoreFacts, FieldTypes DEF Evicted
  <2> QED BY <1>1, <2>1, GoStep
<1> QED BY <1>2, <1>3

\* The temporary is a new file: no process and no name refers to it.
LEMMA WriteInv == ASSUME StoreInv, NEW p \in Procs, Write(p) PROVE StoreInv'
<1> DEFINE head == [ctx |-> Ctx[p], kind |-> proc[p].kind, flag |-> proc[p].tools]
           g == [text |-> proc[p].text, ctx |-> Ctx[p], kind |-> proc[p].kind, head |-> head,
                 whole |-> TRUE, trailer |-> proc[p].tools]
           n == Len(file) + 1
           x == [[proc[p] EXCEPT !.pc = "rename"] EXCEPT !.file = n]
<1>1. /\ proc[p].text \in Texts /\ Ctx[p] \in Nat /\ proc[p].kind \in Kinds \cup {"serial"}
      /\ proc[p].tools \in BOOLEAN
  BY StoreFacts, FieldTypes, KvStoreAssumption DEF Write, Holds
<1>2. head \in Heads
  BY <1>1 DEF Heads
<1>3. g \in FileRec /\ g.text = proc[p].text /\ g.whole /\ Describes(g.head, g)
  BY <1>1, <1>2 DEF FileRec, Describes
<1>4. file' = Append(file, g) /\ dir' = dir /\ since' = since
  BY DEF Write
<1>5. proc' = [proc EXCEPT ![p] = x]
  BY StoreFacts DEF Write
<1> HIDE DEF g
<1>6. /\ file' \in Seq(FileRec) /\ Len(file') = n /\ n \in Nat /\ Len(file) <= n
      /\ \A f \in 1..Len(file) : file'[f] = file[f]
      /\ file'[n] = g
  BY <1>3, <1>4, StoreFacts, AppendProperties
<1>7. x \in ProcRec
  BY <1>6, StoreFacts, ProcSet DEF PCs
<1>8. /\ x.pc = "rename" /\ x.file = n /\ x.text = proc[p].text /\ x.result = proc[p].result
  BY StoreFacts DEF ProcRec
<1>9. /\ \A f \in 1..Len(file) : Kept(file'[f], file[f])
      /\ \A f \in 1..Len(file') : Describes(file'[f].head, file'[f])
  <2>1. \A f \in 1..Len(file) : Kept(file'[f], file[f])
    BY <1>6 DEF Kept
  <2>2. ASSUME NEW f \in 1..Len(file') PROVE Describes(file'[f].head, file'[f])
    <3>1. CASE f = n
      BY <1>3, <1>6, <3>1
    <3>2. CASE f # n
      <4>1. f \in 1..Len(file)
        BY <1>6, <3>2
      <4> QED BY <1>6, <4>1, StoreFacts
    <3> QED BY <3>1, <3>2
  <2> QED BY <2>1, <2>2
<1> HIDE DEF x, n
<1>10. dir' \in [Texts -> 0..Len(file')] /\ x.file <= Len(file') /\ x.file # 0
  BY <1>4, <1>6, <1>8, StoreFacts DEF n
<1>11. Holds(x, file') /\ Recalls(x, file') /\ Looks(p, x, file', dir')
  BY <1>1, <1>3, <1>6, <1>8, <1>10, StoreFacts DEF Holds, Recalls, Looks
<1> QED BY <1>4, <1>5, <1>6, <1>7, <1>9, <1>10, <1>11, StoreFacts, StoreStep

LEMMA RenameInv == ASSUME StoreInv, NEW p \in Procs, Rename(p) PROVE StoreInv'
<1> DEFINE d == [dir EXCEPT ![proc[p].text] = proc[p].file]
           v == IF Over(p, d) /\ ~proc[p].raced THEN "over" ELSE "stored"
           x == [Idle EXCEPT !.result = v]
<1>1. v \in {"none", "stored", "over", "loaded"}
  OBVIOUS
<1>2. proc' = [proc EXCEPT ![p] = x] /\ dir' = d /\ file' = file
  BY DEF Rename, Done
<1> HIDE DEF v
<1>3. x \in ProcRec /\ x.pc = "idle" /\ x.file = 0 /\ x.result = v
  BY <1>1, DoneType
<1>4. /\ proc[p].text \in Texts /\ proc[p].file \in 1..Len(file)
      /\ file[proc[p].file].text = proc[p].text /\ file[proc[p].file].whole
  BY StoreFacts DEF Rename, Holds
<1>5. since' \in [Procs -> Nat]
  BY <1>4, SizeType, AddedType DEF StoreInv, Rename
<1>6. /\ dir' \in [Texts -> 0..Len(file')]
      /\ \A t \in Texts : dir'[t] \in {0, dir[t]} \/ (file'[dir'[t]].text = t /\ file'[dir'[t]].whole)
  BY <1>2, <1>4, StoreFacts
<1>7. /\ file' \in Seq(FileRec) /\ Len(file) <= Len(file')
      /\ \A f \in 1..Len(file) : Kept(file'[f], file[f])
      /\ \A f \in 1..Len(file') : Describes(file'[f].head, file'[f])
  BY <1>2, StoreFacts DEF Kept
<1> HIDE DEF x, d
<1>8. Holds(x, file') /\ Recalls(x, file') /\ Looks(p, x, file', dir') /\ x.file <= Len(file')
  BY <1>1, <1>2, <1>3, StoreFacts DEF Holds, Recalls, Looks
<1> QED BY <1>2, <1>3, <1>5, <1>6, <1>7, <1>8, StoreStep

LEMMA StoreFailsInv == ASSUME StoreInv, NEW p \in Procs, StoreFails(p) PROVE StoreInv'
BY StoreFacts, DoneStep DEF StoreFails

-----------------------------------------------------------------------------
(* Rewriting in place. *)

\* One file is rewritten: its payload stays and its header describes it.
LEMMA Rewrite ==
  ASSUME StoreInv, NEW p \in Procs, NEW i \in 1..Len(file), NEW g \in FileRec,
         file' = [file EXCEPT ![i] = g], Kept(g, file[i]), Describes(g.head, g)
  PROVE  /\ file' \in Seq(FileRec) /\ Len(file') = Len(file) /\ file'[i] = g
         /\ \A f \in 1..Len(file) : Kept(file'[f], file[f])
         /\ \A f \in 1..Len(file') : Describes(file'[f].head, file'[f])
<1>1. file' \in Seq(FileRec) /\ Len(file') = Len(file) /\ \A f \in 1..Len(file) : file'[f] = IF f = i THEN g ELSE file[f]
  BY StoreFacts, ExceptSeq
<1>2. \A f \in 1..Len(file) : Kept(file[f], file[f])
  BY DEF Kept
<1> QED BY <1>1, <1>2, StoreFacts

\* A step that rewrites a file and leaves the directory alone.
LEMMA RewriteStep ==
  ASSUME StoreInv, NEW p \in Procs, NEW i \in 1..Len(file), NEW g \in FileRec,
         file' = [file EXCEPT ![i] = g], Kept(g, file[i]), Describes(g.head, g),
         NEW x \in ProcRec, proc' = [proc EXCEPT ![p] = x],
         x.file <= Len(file), x.pc \in {"idle", "append", "flag"},
         x.pc # "idle" => x.file # 0 /\ Describes(x.head, file[x.file]),
         x.result \notin {"wrecked", "nologits"},
         dir' = dir, since' \in [Procs -> Nat]
  PROVE  StoreInv'
<1>1. /\ file' \in Seq(FileRec) /\ Len(file') = Len(file) /\ file'[i] = g
      /\ \A f \in 1..Len(file) : Kept(file'[f], file[f])
      /\ \A f \in 1..Len(file') : Describes(file'[f].head, file'[f])
  BY Rewrite
<1>2. dir' \in [Texts -> 0..Len(file')] /\ Len(file) <= Len(file') /\ x.file <= Len(file')
  BY <1>1, StoreFacts
<1>3. x.pc # "idle" => Kept(file'[x.file], file[x.file])
  BY <1>1, StoreFacts, FieldTypes
<1>4. Holds(x, file') /\ Recalls(x, file') /\ Looks(p, x, file', dir')
  BY <1>3 DEF Holds, Recalls, Looks, Kept, Describes
<1> QED BY <1>1, <1>2, <1>4, StoreStep

LEMMA OpenTrailerInv == ASSUME StoreInv, NEW p \in Procs, OpenTrailer(p) PROVE StoreInv'
<1> DEFINE f == dir[proc[p].text]
           x == [[[proc[p] EXCEPT !.pc = "cut"] EXCEPT !.file = f] EXCEPT !.head = file[f].head]
<1>1. dir' = dir /\ file' = file /\ since' = since /\ dir \in [Texts -> 0..Len(file)] /\ since \in [Procs -> Nat]
  BY StoreFacts DEF OpenTrailer
<1>2. CASE ~proc[p].tools \/ f = 0
  <2>1. Done(p, "stored")
    BY <1>2 DEF OpenTrailer
  <2> QED BY <1>1, <2>1, DoneStep
<1>3. CASE proc[p].tools /\ f # 0
  <2>1. proc[p].text \in Texts /\ f \in 1..Len(file)
    BY <1>1, <1>3, StoreFacts DEF OpenTrailer, Holds
  <2>2. file[f].head \in Heads /\ Describes(file[f].head, file[f]) /\ f \in Nat /\ "cut" \in PCs
    BY <2>1, StoreFacts DEF PCs
  <2>3. proc' = [proc EXCEPT ![p] = x]
    BY <1>3, StoreFacts DEF OpenTrailer
  <2> HIDE DEF f
  <2>4. x \in ProcRec
    BY <2>2, StoreFacts, ProcSet
  <2>5. x.pc = "cut" /\ x.file = f /\ x.head = file[f].head /\ x.result = proc[p].result
    BY StoreFacts DEF ProcRec
  <2> HIDE DEF x
  <2>6. Holds(x, file) /\ Recalls(x, file) /\ Looks(p, x, file, dir') /\ x.file <= Len(file)
    BY <2>1, <2>2, <2>5, StoreFacts DEF Holds, Recalls, Looks
  <2> QED BY <1>1, <2>3, <2>4, <2>6, QuietStep
<1> QED BY <1>2, <1>3

\* A rewritten trailer leaves payload and header of the record alone.
LEMMA TrailerSet ==
  ASSUME NEW g \in FileRec, NEW b \in BOOLEAN, Describes(g.head, g)
  PROVE  LET h == [g EXCEPT !.trailer = b] IN h \in FileRec /\ Kept(h, g) /\ Describes(h.head, h)
<1> DEFINE h == [g EXCEPT !.trailer = b]
<1>1. h \in FileRec /\ h.text = g.text /\ h.ctx = g.ctx /\ h.kind = g.kind /\ h.whole = g.whole /\ h.head = g.head
  BY DEF FileRec
<1> QED BY <1>1 DEF Kept, Describes

LEMMA TrailerInv ==
  ASSUME StoreInv, NEW p \in Procs, NEW b \in BOOLEAN, NEW at \in {"append", "flag"},
         proc[p].pc \in {"cut", "append"}, Go(p, at),
         file' = [file EXCEPT ![proc[p].file].trailer = b], dir' = dir, since' \in [Procs -> Nat]
  PROVE  StoreInv'
<1> DEFINE i == proc[p].file
           x == [proc[p] EXCEPT !.pc = at]
           g == [file[i] EXCEPT !.trailer = b]
<1>1. i \in 1..Len(file) /\ Describes(proc[p].head, file[i]) /\ at \in PCs
  BY StoreFacts DEF Holds, Recalls, PCs
<1>2. file[i] \in FileRec /\ Describes(file[i].head, file[i])
  BY <1>1, StoreFacts
<1>3. g \in FileRec /\ Kept(g, file[i]) /\ Describes(g.head, g)
  BY <1>2, TrailerSet
<1>4. file' = [file EXCEPT ![i] = g] /\ proc' = [proc EXCEPT ![p] = x]
  BY DEF Go
<1>5. x \in ProcRec
  BY <1>1, StoreFacts, ProcSet
<1>6. x.pc = at /\ x.file = i /\ x.head = proc[p].head /\ x.result = proc[p].result
  BY StoreFacts DEF ProcRec
<1> HIDE DEF x, g, i
<1>7. x.result \notin {"wrecked", "nologits"} /\ x.file <= Len(file)
  BY <1>1, <1>6, StoreFacts DEF Looks
<1>8. x.pc \in {"idle", "append", "flag"} /\ x.file # 0 /\ Describes(x.head, file[x.file])
  BY <1>1, <1>6
<1> QED BY <1>1, <1>3, <1>4, <1>5, <1>7, <1>8, RewriteStep

LEMMA CutTrailerInv == ASSUME StoreInv, NEW p \in Procs, CutTrailer(p) PROVE StoreInv'
BY TrailerInv, StoreFacts DEF CutTrailer

LEMMA AppendTrailerInv == ASSUME StoreInv, NEW p \in Procs, AppendTrailer(p) PROVE StoreInv'
<1>1. since' \in [Procs -> Nat]
  BY AddedType DEF AppendTrailer, StoreInv, TrailerBytes
<1> QED BY <1>1, TrailerInv DEF AppendTrailer

\* Writing back a header that describes the file.
LEMMA HeaderInv ==
  ASSUME StoreInv, NEW p \in Procs, NEW head \in Heads, NEW v \in {"none", "stored", "over", "loaded"},
         proc[p].file \in 1..Len(file), Describes(head, file[proc[p].file]), Done(p, v),
         file' = [file EXCEPT ![proc[p].file].head = head], dir' = dir, since' = since
  PROVE  StoreInv'
<1> DEFINE i == proc[p].file
           x == [Idle EXCEPT !.result = v]
           g == [file[i] EXCEPT !.head = head]
<1>1. file[i] \in FileRec
  BY StoreFacts
<1>2. g \in FileRec /\ g.text = file[i].text /\ g.ctx = file[i].ctx /\ g.kind = file[i].kind
      /\ g.whole = file[i].whole /\ g.head = head
  BY <1>1 DEF FileRec
<1>3. file' = [file EXCEPT ![i] = g] /\ proc' = [proc EXCEPT ![p] = x]
  BY DEF Done
<1> HIDE DEF g
<1>4. Kept(g, file[i]) /\ Describes(g.head, g)
  BY <1>2 DEF Kept, Describes
<1>5. x \in ProcRec /\ x.pc = "idle" /\ x.file = 0 /\ x.result = v
  BY DoneType
<1> HIDE DEF x
<1>6. x.file <= Len(file) /\ since' \in [Procs -> Nat] /\ x.result \notin {"wrecked", "nologits"}
  BY <1>5, StoreFacts
<1> QED BY <1>2, <1>3, <1>4, <1>5, <1>6, RewriteStep

LEMMA WriteFlagInv == ASSUME StoreInv, NEW p \in Procs, WriteFlag(p) PROVE StoreInv'
<1> DEFINE head == [proc[p].head EXCEPT !.flag = TRUE]
<1>1. /\ proc[p].file \in 1..Len(file) /\ proc[p].head \in Heads
      /\ Describes(proc[p].head, file[proc[p].file])
  BY StoreFacts, FieldTypes DEF WriteFlag, Holds, Recalls
<1>2. head \in Heads /\ head.ctx = proc[p].head.ctx /\ head.kind = proc[p].head.kind
  BY <1>1 DEF Heads
<1>3. Describes(head, file[proc[p].file])
  BY <1>1, <1>2 DEF Describes
<1>4. file' = [file EXCEPT ![proc[p].file].head = head]
  BY DEF WriteFlag
<1> HIDE DEF head
<1> QED BY <1>1, <1>2, <1>3, <1>4, HeaderInv DEF WriteFlag

LEMMA TouchWriteInv == ASSUME StoreInv, NEW p \in Procs, TouchWrite(p) PROVE StoreInv'
<1>1. /\ proc[p].file \in 1..Len(file) /\ proc[p].head \in Heads
      /\ Describes(proc[p].head, file[proc[p].file])
  BY StoreFacts, FieldTypes DEF TouchWrite, Holds, Recalls
<1>2. proc[p].result \in {"none", "stored", "over", "loaded"}
  BY StoreFacts DEF ProcRec, Looks
<1> QED BY <1>1, <1>2, HeaderInv DEF TouchWrite

-----------------------------------------------------------------------------
(* Looking up. *)

LEMMA FindInv == ASSUME StoreInv, NEW p \in Procs, NEW prompt \in Texts, Find(p, prompt) PROVE StoreInv'
<1>1. dir' = dir /\ file' = file /\ since' = since /\ dir \in [Texts -> 0..Len(file)] /\ since \in [Procs -> Nat]
  BY StoreFacts DEF Find
<1>2. CASE Done(p, "none")
  BY <1>1, <1>2, DoneStep
<1>3. CASE ~Done(p, "none")
  <2> PICK e \in Candidates(p, prompt) :
        proc' = [proc EXCEPT ![p] = [Idle EXCEPT !.pc = "open", !.text = e.text, !.head = e.head,
                                                 !.equal = e.text = prompt]]
    BY <1>3 DEF Find
  <2> DEFINE b == (e.text = prompt)
             y == [[Idle EXCEPT !.pc = "open"] EXCEPT !.text = e.text]
             x == [[y EXCEPT !.head = e.head] EXCEPT !.equal = b]
  <2>1. e \in Listed /\ e.head.ctx <= Ctx[p]
    BY DEF Candidates, Usable
  <2>2. e \in Entries /\ dir[e.text] # 0 /\ file[dir[e.text]].whole
    BY <2>1, ListedType DEF StoreInv
  <2>3. e.text \in Texts /\ e.head \in Heads /\ b \in BOOLEAN
    BY <2>2 DEF Entries
  <2>4. proc' = [proc EXCEPT ![p] = x]
    OBVIOUS
  <2> HIDE DEF b
  <2>5. y \in ProcRec /\ y.pc = "open" /\ y.text = e.text /\ y.result = "none" /\ y.file = 0
    BY <2>3, IdleType, ProcSet DEF Idle, PCs
  <2> HIDE DEF y
  <2>6. x \in ProcRec
    BY <2>3, <2>5, ProcSet
  <2>7. x.pc = "open" /\ x.text = e.text /\ x.result = "none" /\ x.file = 0 /\ x.head = e.head
    BY <2>5 DEF ProcRec
  <2> HIDE DEF x
  <2>8. Holds(x, file) /\ Recalls(x, file) /\ Looks(p, x, file, dir') /\ x.file <= Len(file)
    BY <1>1, <2>1, <2>2, <2>3, <2>7, StoreFacts DEF Holds, Recalls, Looks
  <2> QED BY <1>1, <2>4, <2>6, <2>8, QuietStep
<1> QED BY <1>2, <1>3

LEMMA OpenRecordInv == ASSUME StoreInv, NEW p \in Procs, OpenRecord(p) PROVE StoreInv'
<1> DEFINE f == dir[proc[p].text]
           x == [[[proc[p] EXCEPT !.pc = "load"] EXCEPT !.file = f] EXCEPT !.head = file[f].head]
<1>1. dir' = dir /\ file' = file /\ since' = since /\ dir \in [Texts -> 0..Len(file)] /\ since \in [Procs -> Nat]
  BY StoreFacts DEF OpenRecord
<1>2. CASE Done(p, "none")
  BY <1>1, <1>2, DoneStep
<1>3. CASE f # 0 /\ Reopened(file[f].head, proc[p].head, proc[p].equal)
  <2>1. proc[p].text \in Texts /\ f \in 1..Len(file) /\ file[f].whole /\ proc[p].head.ctx <= Ctx[p]
    BY <1>1, <1>3, StoreFacts DEF OpenRecord, Holds, Looks
  <2>2. file[f].head \in Heads /\ Describes(file[f].head, file[f]) /\ f \in Nat /\ "load" \in PCs
    BY <2>1, StoreFacts DEF PCs
  <2>3. proc' = [proc EXCEPT ![p] = x]
    BY <1>3, StoreFacts DEF OpenRecord
  <2>4. file[f].head.ctx <= Ctx[p] /\ (file[f].head.kind = "bank" => ~proc[p].equal)
    BY <1>3, <2>1 DEF Reopened
  <2> HIDE DEF f
  <2>5. x \in ProcRec
    BY <2>2, StoreFacts, ProcSet
  <2>6. /\ x.pc = "load" /\ x.file = f /\ x.head = file[f].head /\ x.result = proc[p].result
        /\ x.text = proc[p].text /\ x.equal = proc[p].equal
    BY StoreFacts DEF ProcRec
  <2> HIDE DEF x
  <2>7. Holds(x, file) /\ Recalls(x, file) /\ Looks(p, x, file, dir') /\ x.file <= Len(file)
    BY <2>1, <2>2, <2>4, <2>6, StoreFacts DEF Holds, Recalls, Looks
  <2> QED BY <1>1, <2>3, <2>5, <2>7, QuietStep
<1> QED BY <1>2, <1>3 DEF OpenRecord

\* A payload that is reached always loads: the header that was compared
\* describes it, and the file is whole.
LEMMA LoadPayloadInv == ASSUME StoreInv, NEW p \in Procs, LoadPayload(p) PROVE StoreInv'
<1> DEFINE f == proc[p].file
           x == [[proc[p] EXCEPT !.pc = "touch"] EXCEPT !.result = "loaded"]
<1>1. /\ f \in 1..Len(file) /\ proc[p].text \in Texts /\ Describes(proc[p].head, file[f])
      /\ proc[p].head.ctx <= Ctx[p] /\ file[f].whole /\ (proc[p].head.kind = "bank" => ~proc[p].equal)
  BY StoreFacts DEF LoadPayload, Holds, Recalls, Looks
<1>2. Loads(p, f) /\ file[f].ctx = proc[p].head.ctx /\ ~(file[f].kind = "bank" /\ proc[p].equal)
  BY <1>1 DEF Loads, Describes
<1>3. proc' = [proc EXCEPT ![p].pc = "touch", ![p].result = "loaded"] /\ dir' = dir
  BY <1>2 DEF LoadPayload
<1>4. proc' = [proc EXCEPT ![p] = x] /\ file' = file /\ since' = since
  BY <1>3, StoreFacts DEF LoadPayload
<1>5. x \in ProcRec
  BY StoreFacts, ProcSet DEF PCs
<1>6. x.pc = "touch" /\ x.file = f /\ x.text = proc[p].text /\ x.result = "loaded"
  BY StoreFacts DEF ProcRec
<1> HIDE DEF x, f
<1>7. Holds(x, file) /\ Recalls(x, file) /\ Looks(p, x, file, dir') /\ x.file <= Len(file)
  BY <1>1, <1>6, StoreFacts DEF Holds, Recalls, Looks
<1> QED BY <1>3, <1>4, <1>5, <1>7, StoreFacts, QuietStep

LEMMA TouchReadInv == ASSUME StoreInv, NEW p \in Procs, TouchRead(p) PROVE StoreInv'
<1> DEFINE f == dir[proc[p].text]
           x == [[[proc[p] EXCEPT !.pc = "hit"] EXCEPT !.file = f] EXCEPT !.head = file[f].head]
<1>1. dir' = dir /\ file' = file /\ since' = since /\ dir \in [Texts -> 0..Len(file)] /\ since \in [Procs -> Nat]
  BY StoreFacts DEF TouchRead
<1>2. CASE f = 0
  <2>1. Done(p, proc[p].result) /\ proc[p].result \in {"none", "stored", "over", "loaded"}
    BY <1>2, StoreFacts DEF TouchRead, ProcRec, Looks
  <2> QED BY <1>1, <2>1, DoneStep
<1>3. CASE f # 0
  <2>1. proc[p].text \in Texts /\ f \in 1..Len(file)
    BY <1>1, <1>3, StoreFacts DEF TouchRead, Holds
  <2>2. file[f].head \in Heads /\ Describes(file[f].head, file[f]) /\ f \in Nat /\ "hit" \in PCs
    BY <2>1, StoreFacts DEF PCs
  <2>3. proc' = [proc EXCEPT ![p] = x]
    BY <1>3, StoreFacts DEF TouchRead
  <2> HIDE DEF f
  <2>4. x \in ProcRec
    BY <2>2, StoreFacts, ProcSet
  <2>5. x.pc = "hit" /\ x.file = f /\ x.head = file[f].head /\ x.result = proc[p].result
    BY StoreFacts DEF ProcRec
  <2> HIDE DEF x
  <2>6. Holds(x, file) /\ Recalls(x, file) /\ Looks(p, x, file, dir') /\ x.file <= Len(file)
    BY <2>1, <2>2, <2>5, StoreFacts DEF Holds, Recalls, Looks
  <2> QED BY <1>1, <2>3, <2>4, <2>6, QuietStep
<1> QED BY <1>2, <1>3

-----------------------------------------------------------------------------
(* Crashes. *)

LEMMA ClosedFacts ==
  Closed \in ProcRec /\ Closed.pc = "closed" /\ Closed.file = 0 /\ Closed.result = "none"
BY IdleType DEF Closed, Idle

LEMMA CrashInv == ASSUME StoreInv, NEW p \in Procs, Crash(p) PROVE StoreInv'
<1>1. Holds(Closed, file) /\ Recalls(Closed, file) /\ Looks(p, Closed, file, dir') /\ Closed.file <= Len(file)
  BY ClosedFacts, StoreFacts DEF Holds, Recalls, Looks
<1>2. proc' = [proc EXCEPT ![p] = Closed] /\ file' = file /\ dir' = dir /\ since' = since
  BY DEF Crash
<1> QED BY <1>1, <1>2, ClosedFacts, StoreFacts, QuietStep

\* The one step that shortens a file leaves no process with a file open.
LEMMA PowerCutInv == ASSUME StoreInv, NEW t \in Texts, PowerCut(t) PROVE StoreInv'
<1> DEFINE i == dir[t]
           g == [file[i] EXCEPT !.whole = FALSE, !.trailer = FALSE]
<1>1. /\ file \in Seq(FileRec) /\ Len(file) \in Nat /\ dir \in [Texts -> 0..Len(file)] /\ i \in 1..Len(file)
      /\ file[i] \in FileRec /\ Describes(file[i].head, file[i]) /\ since \in [Procs -> Nat]
  BY LenProperties, ElementOfSeq DEF StoreInv, TypeOK, HeadsTrue, PowerCut, Readable
<1>2. g \in FileRec /\ g.text = file[i].text /\ g.ctx = file[i].ctx /\ g.kind = file[i].kind /\ g.head = file[i].head
  BY <1>1 DEF FileRec
<1>3. file' = [file EXCEPT ![i] = g] /\ dir' = dir /\ since' = since /\ proc' = [p \in Procs |-> Closed]
  BY DEF PowerCut
<1> HIDE DEF g
<1>4. /\ file' \in Seq(FileRec) /\ Len(file') = Len(file)
      /\ \A f \in 1..Len(file) : file'[f] = IF f = i THEN g ELSE file[f]
  BY <1>1, <1>2, <1>3, ExceptSeq
<1>5. TypeOK'
  BY <1>1, <1>3, <1>4, ClosedFacts DEF TypeOK
<1>6. NamesTrue'
  <2> SUFFICES ASSUME NEW u \in Texts, dir[u] # 0 PROVE file'[dir[u]].text = u
    BY <1>3 DEF NamesTrue
  <2>1. dir[u] \in 1..Len(file) /\ file[dir[u]].text = u
    BY <1>1 DEF StoreInv, NamesTrue
  <2> QED BY <1>2, <1>4, <2>1
<1>7. \A f \in 1..Len(file') : Describes(file'[f].head, file'[f])
  BY <1>1, <1>2, <1>4 DEF StoreInv, HeadsTrue, Describes
<1>8. HeadsTrue'
  BY <1>7 DEF HeadsTrue, Describes
<1>9. (\A p \in Procs : Holds(proc[p], file) /\ Recalls(proc[p], file) /\ Looks(p, proc[p], file, dir))'
  BY <1>3, ClosedFacts DEF Holds, Recalls, Looks, Describes
<1> QED BY <1>5, <1>6, <1>8, <1>9 DEF StoreInv

-----------------------------------------------------------------------------
(* Theorems. *)

\* StoreInv is inductive.
THEOREM StoreInvariant == Spec => []StoreInv
<1>1. StoreInv /\ [Next]_vars => StoreInv'
  <2> SUFFICES ASSUME StoreInv, [Next]_vars PROVE StoreInv'
    OBVIOUS
  <2>1. CASE UNCHANGED vars
    BY <2>1 DEF vars, StoreInv, TypeOK, NamesTrue, HeadsTrue, Holds, Recalls, Looks, Describes
  <2>2. ASSUME NEW p \in Procs,
               \/ Open(p) \/ Replace(p) \/ Stage(p) \/ Refresh(p) \/ Evict(p) \/ Evicted(p)
               \/ Write(p) \/ Rename(p) \/ StoreFails(p)
        PROVE  StoreInv'
    BY <2>2, OpenInv, ReplaceInv, StageInv, RefreshInv, EvictInv, EvictedInv, WriteInv, RenameInv, StoreFailsInv
  <2>3. ASSUME NEW p \in Procs,
               \/ OpenTrailer(p) \/ CutTrailer(p) \/ AppendTrailer(p) \/ WriteFlag(p)
               \/ OpenRecord(p) \/ LoadPayload(p) \/ TouchRead(p) \/ TouchWrite(p) \/ Crash(p)
        PROVE  StoreInv'
    BY <2>3, OpenTrailerInv, CutTrailerInv, AppendTrailerInv, WriteFlagInv, OpenRecordInv, LoadPayloadInv,
       TouchReadInv, TouchWriteInv, CrashInv
  <2>4. ASSUME NEW p \in Procs, NEW t \in Texts,
               Find(p, t) \/ \E k \in Kinds, b \in BOOLEAN : Store(p, t, k, b)
        PROVE  StoreInv'
    BY <2>4, FindInv, StoreInvStep
  <2>5. ASSUME NEW t \in Texts, PowerCut(t) PROVE StoreInv'
    BY <2>5, PowerCutInv
  <2> QED BY <2>1, <2>2, <2>3, <2>4, <2>5 DEF Next
<1> QED BY <1>1, InitInv, PTL DEF Spec

\* A record under a text's name holds that text and its header describes its
\* payload, however the processes interleave their rewrites, replacements
\* and evictions (kv_cache_rewrite_trailer, ds4_kvstore_touch_file).
THEOREM RecordsTrueHolds == Spec => []RecordsTrue
<1>1. StoreInv => RecordsTrue
  BY DEF StoreInv, TypeOK, NamesTrue, HeadsTrue, Describes, RecordsTrue
<1> QED BY <1>1, StoreInvariant, PTL

\* No lookup wrecks the session or restores one without logits
\* (ds4_kvstore_try_load_text).
THEOREM LookupSafeHolds == Spec => []LookupSafe
<1>1. StoreInv => LookupSafe
  BY DEF StoreInv, Looks, LookupSafe
<1> QED BY <1>1, StoreInvariant, PTL

-----------------------------------------------------------------------------
(* The budget.  A pass of evictions counts by an index it read once; the     *)
(* invariant compares that index with the directory byte by byte, so that    *)
(* sums of sizes are cardinalities of sets.                                  *)

\* A record that a store makes room for fits the budget by itself.
Fitted(x) ==
  x.pc \in {"refresh", "evict", "write", "rename"} /\ x.text # NoText => Bytes(x.text, x.tools) <= Budget

\* While a process evicts, what it has counted is what its index lists, and the
\* directory exceeds that by no more than others added; from then until its
\* rename there is room for its record, but for what others added.
Counted(x, tot, sn, held) ==
  /\ x.pc = "evict" =>
       /\ IsFiniteSet(Listing(x.index)) /\ \A e, f \in x.index : e.text = f.text => e = f
       /\ ~x.raced => tot = Cardinality(Listing(x.index)) /\ Cardinality(held \ Listing(x.index)) <= sn
  /\ x.pc \in {"write", "rename"} /\ ~x.raced =>
       Cardinality(held) <= Budget - Bytes(x.text, x.tools) + sn

\* The temporary is the writer's alone until it is renamed.
Private(p) ==
  proc[p].pc = "rename" =>
    /\ file[proc[p].file].trailer = proc[p].tools
    /\ \A t \in Texts : dir[t] # proc[p].file
    /\ \A q \in Procs : q # p => proc[q].file # proc[p].file

BudgetInv ==
  /\ total \in [Procs -> Nat]
  /\ \A p \in Procs : /\ proc[p].result # "over" /\ Fitted(proc[p])
                      /\ Counted(proc[p], total[p], since[p], Stored(dir)) /\ Private(p)

\* The bytes of finitely many records are finitely many.
BytesBy(S, z) == UNION {{t} \X (1..z[t]) : t \in S}

LEMMA SliceCount ==
  ASSUME NEW t, NEW k \in Nat PROVE IsFiniteSet({t} \X (1..k)) /\ Cardinality({t} \X (1..k)) = k
<1>1. IsFiniteSet({t}) /\ Cardinality({t}) = 1
  BY FS_Singleton
<1>2. IsFiniteSet(1..k) /\ Cardinality(1..k) = k
  BY FS_Interval
<1>3. IsFiniteSet({t} \X (1..k)) /\ Cardinality({t} \X (1..k)) = Cardinality({t}) * Cardinality(1..k)
  BY <1>1, <1>2, FS_Product
<1> QED BY <1>1, <1>2, <1>3

LEMMA BytesFinite ==
  ASSUME NEW S, IsFiniteSet(S), NEW z \in [S -> Nat] PROVE IsFiniteSet(BytesBy(S, z))
<1> DEFINE f == [t \in S |-> {t} \X (1..z[t])]
           F == {{t} \X (1..z[t]) : t \in S}
<1>1. f \in Surjection(S, F)
  BY DEF Surjection
<1>2. IsFiniteSet(F)
  <2> HIDE DEF f, F
  <2> QED BY <1>1, FS_Surjection
<1>3. ASSUME NEW T \in F PROVE IsFiniteSet(T)
  <2>1. PICK t \in S : T = {t} \X (1..z[t])
    OBVIOUS
  <2>2. z[t] \in Nat
    OBVIOUS
  <2> QED BY <2>1, <2>2, SliceCount
<1> HIDE DEF F
<1>4. IsFiniteSet(UNION F)
  BY <1>2, <1>3, FS_UNION
<1> QED BY <1>4 DEF BytesBy, F

\* The records of the directory have finitely many bytes.
LEMMA StoredFinite == ASSUME TypeOK PROVE IsFiniteSet(Stored(dir)) /\ Cardinality(Stored(dir)) \in Nat
<1> DEFINE S == {u \in Texts : Readable(dir[u])}
           z == [t \in S |-> SizeOf(dir[t])]
<1>1. IsFiniteSet(S)
  <2>1. S \in SUBSET Texts
    OBVIOUS
  <2> HIDE DEF S
  <2> QED BY <2>1, KvStoreAssumption, FS_Subset
<1>2. z \in [S -> Nat]
  <2>1. \A t \in S : dir[t] \in 1..Len(file)
    BY DEF TypeOK, Readable
  <2> QED BY <2>1, SizeType
<1>3. Stored(dir) = BytesBy(S, z)
  BY DEF Stored, BytesBy
<1> HIDE DEF S, z
<1>4. IsFiniteSet(BytesBy(S, z))
  BY <1>1, <1>2, BytesFinite
<1> QED BY <1>3, <1>4, FS_CardinalityType

\* Counting what is left of a finite set when more is taken away, and what a
\* few additions make of it.
LEMMA CountSubset ==
  ASSUME NEW A, NEW B, IsFiniteSet(B), A \subseteq B
  PROVE  IsFiniteSet(A) /\ Cardinality(A) \in Nat /\ Cardinality(B) \in Nat /\ Cardinality(A) <= Cardinality(B)
<1>1. A \in SUBSET B
  OBVIOUS
<1> QED BY <1>1, FS_Subset, FS_CardinalityType

LEMMA CountUnion ==
  ASSUME NEW A, NEW B, IsFiniteSet(A), IsFiniteSet(B)
  PROVE  /\ IsFiniteSet(A \cup B) /\ Cardinality(A \cup B) \in Nat /\ Cardinality(A) \in Nat /\ Cardinality(B) \in Nat
         /\ Cardinality(A \cup B) <= Cardinality(A) + Cardinality(B)
<1>1. IsFiniteSet(A \cup B) /\ Cardinality(A \cup B) = Cardinality(A) + Cardinality(B) - Cardinality(A \cap B)
  BY FS_Union
<1>2. A \cap B \subseteq A
  OBVIOUS
<1>3. Cardinality(A \cap B) \in Nat
  BY <1>2, CountSubset
<1>4. Cardinality(A) \in Nat /\ Cardinality(B) \in Nat /\ Cardinality(A \cup B) \in Nat
  BY <1>1, FS_CardinalityType
<1> QED BY <1>1, <1>3, <1>4

\* What another process's store may add to the directory does not exceed what
\* is put on the account of each process that is making room.
LEMMA CountedKept ==
  ASSUME NEW x, NEW tot, NEW sn \in Nat, NEW sm \in Nat, NEW A, NEW B, NEW E, NEW n \in Nat,
         IsFiniteSet(A), IsFiniteSet(E), Cardinality(E) <= n, B \subseteq A \cup E,
         x.pc \in {"evict", "write", "rename"} => sm >= sn + n,
         x.pc \in {"write", "rename"} => Bytes(x.text, x.tools) \in Nat,
         Counted(x, tot, sn, A)
  PROVE  Counted(x, tot, sm, B)
<1>1. ASSUME x.pc = "evict", ~x.raced PROVE Cardinality(B \ Listing(x.index)) <= sm
  <2> DEFINE L == Listing(x.index)
  <2>1. Cardinality(A \ L) <= sn
    BY <1>1 DEF Counted
  <2> HIDE DEF L
  <2>2. IsFiniteSet(A \ L) /\ Cardinality(A \ L) \in Nat
    BY CountSubset
  <2>3. IsFiniteSet((A \ L) \cup E) /\ Cardinality((A \ L) \cup E) <= Cardinality(A \ L) + Cardinality(E)
        /\ Cardinality(E) \in Nat /\ Cardinality((A \ L) \cup E) \in Nat
    BY <2>2, CountUnion
  <2>4. B \ L \subseteq (A \ L) \cup E
    OBVIOUS
  <2>5. Cardinality(B \ L) <= Cardinality((A \ L) \cup E) /\ Cardinality(B \ L) \in Nat
    BY <2>3, <2>4, CountSubset
  <2>6. sm >= sn + n
    BY <1>1
  <2>7. Cardinality(B \ L) <= sm
    BY <2>1, <2>2, <2>3, <2>5, <2>6
  <2> QED BY <2>7 DEF L
<1>2. ASSUME x.pc \in {"write", "rename"}, ~x.raced
      PROVE  Cardinality(B) <= Budget - Bytes(x.text, x.tools) + sm
  <2>1. Cardinality(A) <= Budget - Bytes(x.text, x.tools) + sn
    BY <1>2 DEF Counted
  <2>2. IsFiniteSet(A \cup E) /\ Cardinality(A \cup E) <= Cardinality(A) + Cardinality(E)
        /\ Cardinality(A) \in Nat /\ Cardinality(E) \in Nat /\ Cardinality(A \cup E) \in Nat
    BY CountUnion
  <2>3. Cardinality(B) <= Cardinality(A \cup E) /\ Cardinality(B) \in Nat
    BY <2>2, CountSubset
  <2>4. sm >= sn + n /\ Bytes(x.text, x.tools) \in Nat /\ Budget \in Nat
    BY <1>2, KvStoreAssumption
  <2> HIDE DEF Bytes
  <2> QED BY <2>1, <2>2, <2>3, <2>4
<1> QED BY <1>1, <1>2 DEF Counted

\* A step of p that replaces its record by x and adds at most the n bytes of E
\* to the directory: every other process keeps its part of the invariant.
LEMMA BudgetStep ==
  ASSUME StoreInv, BudgetInv, NEW p \in Procs, NEW x \in ProcRec, proc' = [proc EXCEPT ![p] = x],
         total' \in [Procs -> Nat], \A q \in Procs : q # p => total'[q] = total[q],
         since' \in [Procs -> Nat],
         NEW E, IsFiniteSet(E), NEW n \in Nat, Cardinality(E) <= n, Stored(dir)' \subseteq Stored(dir) \cup E,
         \A q \in Procs : q # p /\ proc[q].pc \in {"evict", "write", "rename"} => since'[q] >= since[q] + n,
         \A q \in Procs : q # p /\ proc[q].pc = "rename" =>
           /\ file'[proc[q].file].trailer = file[proc[q].file].trailer
           /\ x.file # proc[q].file /\ \A t \in Texts : dir'[t] # proc[q].file,
         x.result # "over", Fitted(x), Counted(x, total'[p], since'[p], Stored(dir)'), Private(p)'
  PROVE  BudgetInv'
<1>1. proc \in [Procs -> ProcRec] /\ since \in [Procs -> Nat] /\ total \in [Procs -> Nat]
  BY StoreFacts DEF BudgetInv
<1>2. proc'[p] = x /\ \A q \in Procs : q # p => proc'[q] = proc[q]
  BY <1>1
<1>3. IsFiniteSet(Stored(dir))
  BY StoredFinite DEF StoreInv
<1>4. ASSUME NEW q \in Procs
      PROVE  /\ proc'[q].result # "over" /\ Fitted(proc'[q])
             /\ Counted(proc'[q], total'[q], since'[q], Stored(dir)') /\ Private(q)'
  <2>1. CASE q = p
    BY <1>2, <2>1
  <2>2. CASE q # p
    <3>1. proc'[q] = proc[q] /\ total'[q] = total[q]
      BY <1>2, <2>2
    <3>2. proc[q].result # "over" /\ Fitted(proc[q]) /\ Counted(proc[q], total[q], since[q], Stored(dir)) /\ Private(q)
      BY DEF BudgetInv
    <3>3. since[q] \in Nat /\ since'[q] \in Nat
      BY <1>1
    <3>4. proc[q].pc \in {"evict", "write", "rename"} => since'[q] >= since[q] + n
      BY <2>2
    <3>5. proc[q].pc \in {"write", "rename"} => Bytes(proc[q].text, proc[q].tools) \in Nat
      BY StoreFacts, FieldTypes, BytesType DEF Holds
    <3>6. Counted(proc[q], total[q], since'[q], Stored(dir)')
      <4> DEFINE y == proc[q]
                 tt == total[q]
                 sn == since[q]
                 sm == since'[q]
                 A == Stored(dir)
                 B == Stored(dir)'
      <4>1. /\ sn \in Nat /\ sm \in Nat /\ IsFiniteSet(A) /\ B \subseteq A \cup E
            /\ (y.pc \in {"evict", "write", "rename"} => sm >= sn + n)
            /\ (y.pc \in {"write", "rename"} => Bytes(y.text, y.tools) \in Nat)
            /\ Counted(y, tt, sn, A)
        BY <1>3, <3>2, <3>3, <3>4, <3>5
      <4> HIDE DEF y, tt, sn, sm, A, B
      <4>2. Counted(y, tt, sm, B)
        BY <4>1, CountedKept
      <4> QED BY <4>2 DEF y, tt, sm, B
    <3>7. Private(q)'
      <4> SUFFICES ASSUME proc[q].pc = "rename"
                   PROVE  /\ file'[proc[q].file].trailer = proc[q].tools
                          /\ \A t \in Texts : dir'[t] # proc[q].file
                          /\ \A r \in Procs : r # q => proc'[r].file # proc[q].file
        BY <3>1 DEF Private
      <4>1. file[proc[q].file].trailer = proc[q].tools /\ \A r \in Procs : r # q => proc[r].file # proc[q].file
        BY <3>2 DEF Private
      <4> QED BY <1>2, <2>2, <4>1
    <3> QED BY <3>1, <3>2, <3>6, <3>7
  <2> QED BY <2>1, <2>2
<1>5. (\A q \in Procs : /\ proc[q].result # "over" /\ Fitted(proc[q])
                        /\ Counted(proc[q], total[q], since[q], Stored(dir)) /\ Private(q))'
  BY <1>4 DEF Fitted, Counted
<1> QED BY <1>5 DEF BudgetInv

\* Names taken away take bytes away.
LEMMA StoredShrinks ==
  ASSUME file' = file, \A t \in Texts : dir'[t] \in {0, dir[t]}
  PROVE  Stored(dir)' \subseteq Stored(dir)
<1> SUFFICES ASSUME NEW y \in Stored(dir)' PROVE y \in Stored(dir)
  OBVIOUS
<1>1. PICK t \in Texts : Readable(dir[t])' /\ y \in {t} \X (1..SizeOf(dir[t])')
  BY DEF Stored
<1>2. dir'[t] = dir[t]
  BY <1>1 DEF Readable
<1>3. Readable(dir[t]) /\ SizeOf(dir[t])' = SizeOf(dir[t])
  BY <1>1, <1>2 DEF Readable, SizeOf
<1> QED BY <1>1, <1>3 DEF Stored

\* A step that leaves the files alone and only takes names away.
LEMMA QuietBudget ==
  ASSUME StoreInv, BudgetInv, NEW p \in Procs, NEW x \in ProcRec, proc' = [proc EXCEPT ![p] = x],
         total' \in [Procs -> Nat], \A q \in Procs : q # p => total'[q] = total[q],
         since' \in [Procs -> Nat], \A q \in Procs : q # p => since'[q] = since[q],
         file' = file, dir' \in [Texts -> 0..Len(file)], \A t \in Texts : dir'[t] \in {0, dir[t]},
         x.file \in {0, proc[p].file} \/ \E t \in Texts : x.file = dir[t],
         x.result # "over", Fitted(x), Counted(x, total'[p], since'[p], Stored(dir)'), x.pc # "rename"
  PROVE  BudgetInv'
<1> DEFINE E == {}
           n == 0
<1>1. IsFiniteSet(E) /\ n \in Nat /\ Cardinality(E) <= n
  BY FS_EmptySet
<1>2. Stored(dir)' \subseteq Stored(dir) \cup E
  BY StoredShrinks
<1>3. \A q \in Procs : q # p /\ proc[q].pc \in {"evict", "write", "rename"} => since'[q] >= since[q] + n
  BY StoreFacts
<1>4. \A q \in Procs : q # p /\ proc[q].pc = "rename" =>
           /\ file'[proc[q].file].trailer = file[proc[q].file].trailer
           /\ x.file # proc[q].file /\ \A t \in Texts : dir'[t] # proc[q].file
  <2> SUFFICES ASSUME NEW q \in Procs, q # p, proc[q].pc = "rename"
               PROVE  x.file # proc[q].file /\ \A t \in Texts : dir'[t] # proc[q].file
    OBVIOUS
  <2>1. proc[q].file # 0
    BY StoreFacts DEF Holds
  <2>2. (\A t \in Texts : dir[t] # proc[q].file) /\ proc[p].file # proc[q].file
    BY DEF BudgetInv, Private
  <2> QED BY <2>1, <2>2
<1>5. Private(p)'
  <2>1. proc'[p] = x
    BY StoreFacts
  <2> QED BY <2>1 DEF Private
<1> HIDE DEF E, n
<1> QED BY <1>1, <1>2, <1>3, <1>4, <1>5, BudgetStep

\* A process outside the part of a store that makes room.
Elsewhere(x) == x.pc \notin {"refresh", "evict", "write", "rename"} /\ x.result # "over"

LEMMA ElsewhereOK ==
  ASSUME NEW x, Elsewhere(x), NEW tot, NEW sn, NEW held PROVE Fitted(x) /\ Counted(x, tot, sn, held)
BY DEF Elsewhere, Fitted, Counted

LEMMA BesideBudget ==
  ASSUME StoreInv, BudgetInv, NEW p \in Procs, NEW x \in ProcRec, proc' = [proc EXCEPT ![p] = x],
         total' \in [Procs -> Nat], \A q \in Procs : q # p => total'[q] = total[q], since' = since,
         file' = file, dir' \in [Texts -> 0..Len(file)], \A t \in Texts : dir'[t] \in {0, dir[t]},
         x.file \in {0, proc[p].file} \/ \E t \in Texts : x.file = dir[t], Elsewhere(x)
  PROVE  BudgetInv'
<1> DEFINE tot == total'[p]
           sn == since'[p]
           held == Stored(dir)'
<1>1. Fitted(x) /\ Counted(x, tot, sn, held)
  <2> HIDE DEF tot, sn, held
  <2> QED BY ElsewhereOK
<1>2. x.result # "over" /\ x.pc # "rename"
  BY DEF Elsewhere
<1>3. since' \in [Procs -> Nat] /\ \A q \in Procs : q # p => since'[q] = since[q]
  BY StoreFacts
<1> QED BY <1>1, <1>2, <1>3, QuietBudget

LEMMA DoneBudget ==
  ASSUME StoreInv, BudgetInv, NEW p \in Procs, NEW v \in {"none", "stored", "loaded"}, Done(p, v),
         total' \in [Procs -> Nat], \A q \in Procs : q # p => total'[q] = total[q], since' = since,
         file' = file, dir' \in [Texts -> 0..Len(file)], \A t \in Texts : dir'[t] \in {0, dir[t]}
  PROVE  BudgetInv'
<1> DEFINE x == [Idle EXCEPT !.result = v]
<1>1. x \in ProcRec /\ x.pc = "idle" /\ x.file = 0 /\ x.result = v
  BY DoneType
<1>2. proc' = [proc EXCEPT ![p] = x]
  BY DEF Done
<1> HIDE DEF x
<1>3. Elsewhere(x)
  BY <1>1 DEF Elsewhere
<1> QED BY <1>1, <1>2, <1>3, BesideBudget

LEMMA BudgetFacts ==
  ASSUME BudgetInv, NEW p \in Procs
  PROVE  /\ total \in [Procs -> Nat] /\ proc[p].result # "over" /\ Fitted(proc[p])
         /\ Counted(proc[p], total[p], since[p], Stored(dir)) /\ Private(p)
BY DEF BudgetInv

LEMMA OpenBudget == ASSUME StoreInv, BudgetInv, NEW p \in Procs, Open(p) PROVE BudgetInv'
<1> DEFINE x == [Idle EXCEPT !.pc = "refresh"]
<1>1. x \in ProcRec /\ x.pc = "refresh" /\ x.file = 0 /\ x.result = "none" /\ x.text = NoText
  BY IdleType, ProcSet DEF Idle, PCs
<1>2. proc' = [proc EXCEPT ![p] = x] /\ file' = file /\ dir' = dir /\ since' = since /\ total' = total
  BY DEF Open
<1> HIDE DEF x
<1>3. Fitted(x) /\ Counted(x, total'[p], since'[p], Stored(dir)')
  BY <1>1 DEF Fitted, Counted
<1> QED BY <1>1, <1>2, <1>3, StoreFacts, BudgetFacts, QuietBudget

LEMMA StoreBudget ==
  ASSUME StoreInv, BudgetInv, NEW p \in Procs, NEW t \in Texts, NEW kind \in Kinds, NEW tools \in BOOLEAN,
         Store(p, t, kind, tools)
  PROVE  BudgetInv'
<1> DEFINE at == IF ~Readable(dir[t]) THEN "stage"
                 ELSE IF Compatible(p, dir[t], kind) THEN "trailer" ELSE "replace"
           y == [[Idle EXCEPT !.pc = at] EXCEPT !.text = t]
           x == [[y EXCEPT !.kind = kind] EXCEPT !.tools = tools]
<1>1. at \in {"stage", "trailer", "replace"} /\ at \in PCs
  BY DEF PCs
<1>2. proc' = [proc EXCEPT ![p] = x] /\ file' = file /\ dir' = dir /\ since' = since /\ total' = total
  BY DEF Store
<1> HIDE DEF at
<1>3. y \in ProcRec /\ y.pc = at /\ y.file = 0 /\ y.result = "none"
  BY <1>1, IdleType, ProcSet DEF Idle
<1> HIDE DEF y
<1>4. x \in ProcRec
  BY <1>3, ProcSet
<1>5. x.pc = at /\ x.file = 0 /\ x.result = "none"
  BY <1>3 DEF ProcRec
<1> HIDE DEF x
<1>6. Elsewhere(x)
  BY <1>1, <1>5 DEF Elsewhere
<1> QED BY <1>2, <1>4, <1>5, <1>6, StoreFacts, BudgetFacts, BesideBudget

LEMMA ReplaceBudget == ASSUME StoreInv, BudgetInv, NEW p \in Procs, Replace(p) PROVE BudgetInv'
<1> DEFINE x == [proc[p] EXCEPT !.pc = "stage"]
<1>1. proc[p].text \in Texts
  BY DEF Replace, StoreInv, Holds
<1>2. dir' \in [Texts -> 0..Len(file)] /\ \A t \in Texts : dir'[t] \in {0, dir[t]}
  BY <1>1, StoreFacts DEF Replace
<1>3. x \in ProcRec
  BY StoreFacts, ProcSet DEF PCs
<1>4. x.pc = "stage" /\ x.file = proc[p].file /\ x.result = proc[p].result
  BY StoreFacts DEF ProcRec
<1>5. proc' = [proc EXCEPT ![p] = x] /\ file' = file /\ since' = since /\ total' = total
  BY DEF Replace, Go
<1> HIDE DEF x
<1>6. Elsewhere(x)
  BY <1>4, BudgetFacts DEF Elsewhere
<1> QED BY <1>2, <1>3, <1>4, <1>5, <1>6, BudgetFacts, BesideBudget

\* A record that goes on fits the budget: the slack is not negative.
LEMMA StageBudget == ASSUME StoreInv, BudgetInv, NEW p \in Procs, Stage(p) PROVE BudgetInv'
<1> DEFINE x == [proc[p] EXCEPT !.pc = "refresh"]
           n == Bytes(proc[p].text, proc[p].tools)
<1>1. file' = file /\ dir' = dir /\ since' = since /\ total' = total
  BY DEF Stage
<1>2. CASE Fits(n)
  <2>1. n \in Nat
    BY StoreFacts, FieldTypes, BytesType DEF Stage, Holds
  <2>2. n <= Budget
    <3> HIDE DEF n
    <3> QED BY <1>2, <2>1, KvStoreAssumption DEF Fits
  <2>3. x \in ProcRec
    BY StoreFacts, ProcSet DEF PCs
  <2>4. /\ x.pc = "refresh" /\ x.file = proc[p].file /\ x.result = proc[p].result /\ x.text = proc[p].text
        /\ x.tools = proc[p].tools
    BY StoreFacts DEF ProcRec
  <2>5. proc' = [proc EXCEPT ![p] = x]
    BY <1>2 DEF Stage, Go
  <2> HIDE DEF x
  <2>6. Fitted(x) /\ Counted(x, total'[p], since'[p], Stored(dir)')
    BY <2>2, <2>4 DEF Fitted, Counted
  <2> QED BY <1>1, <2>3, <2>4, <2>5, <2>6, StoreFacts, BudgetFacts, QuietBudget
<1>3. CASE ~Fits(n)
  <2>1. Done(p, "none")
    BY <1>3 DEF Stage
  <2> QED BY <1>1, <2>1, StoreFacts, BudgetFacts, DoneBudget
<1> QED BY <1>2, <1>3

\* The index a pass reads lists the bytes of the directory, each text once.
LEMMA ListingListed ==
  Listing(Listed) = Stored(dir) /\ \A e, f \in Listed : e.text = f.text => e = f
<1>1. \A e, f \in Listed : e.text = f.text => e = f
  BY DEF Listed
<1>2. ASSUME NEW y \in Listing(Listed) PROVE y \in Stored(dir)
  <2>1. PICK e \in Listed : y \in {e.text} \X (1..e.size)
    BY DEF Listing
  <2>2. e.text \in Texts /\ Readable(dir[e.text]) /\ e.size = SizeOf(dir[e.text])
    BY DEF Listed
  <2>3. y \in {e.text} \X (1..SizeOf(dir[e.text]))
    BY <2>1, <2>2
  <2> QED BY <2>2, <2>3 DEF Stored
<1>3. ASSUME NEW y \in Stored(dir) PROVE y \in Listing(Listed)
  <2>1. PICK t \in Texts : Readable(dir[t]) /\ y \in {t} \X (1..SizeOf(dir[t]))
    BY DEF Stored
  <2> DEFINE e == [text |-> t, head |-> file[dir[t]].head, size |-> SizeOf(dir[t])]
  <2>2. e \in Listed /\ e.text = t /\ e.size = SizeOf(dir[t])
    BY <2>1 DEF Listed
  <2> HIDE DEF e
  <2>3. y \in {e.text} \X (1..e.size)
    BY <2>1, <2>2
  <2> QED BY <2>2, <2>3 DEF Listing
<1> QED BY <1>1, <1>2, <1>3

LEMMA StoredSame == ASSUME file' = file, dir' = dir PROVE Stored(dir)' = Stored(dir)
BY DEF Stored, Readable, SizeOf

LEMMA RefreshBudget == ASSUME StoreInv, BudgetInv, NEW p \in Procs, Refresh(p) PROVE BudgetInv'
<1> DEFINE x == [[proc[p] EXCEPT !.pc = "evict"] EXCEPT !.index = Listed]
<1>1. proc[p] \in ProcRec /\ Listed \in SUBSET Entries /\ "evict" \in PCs /\ proc[p].pc = "refresh"
  BY StoreFacts, ListedType DEF StoreInv, PCs, Refresh
<1>2. x \in ProcRec
  BY <1>1, ProcSet
<1>3. /\ x.pc = "evict" /\ x.file = proc[p].file /\ x.result = proc[p].result /\ x.text = proc[p].text
      /\ x.tools = proc[p].tools /\ x.index = Listed
  BY <1>1 DEF ProcRec
<1>4. proc' = [proc EXCEPT ![p] = x] /\ file' = file /\ dir' = dir
  BY StoreFacts DEF Refresh
<1>5. IsFiniteSet(Listing(Listed)) /\ Cardinality(Listing(Listed)) \in Nat
  BY ListingListed, StoredFinite DEF StoreInv
<1>6. /\ total' \in [Procs -> Nat] /\ total'[p] = Cardinality(Listing(Listed)) /\ \A q \in Procs : q # p => total'[q] = total[q]
      /\ since' \in [Procs -> Nat] /\ since'[p] = 0 /\ \A q \in Procs : q # p => since'[q] = since[q]
  BY <1>5, StoreFacts, BudgetFacts DEF Refresh
<1> HIDE DEF x
<1>7. Fitted(x)
  BY <1>1, <1>3, BudgetFacts DEF Fitted
<1>8. Counted(x, total'[p], since'[p], Stored(dir)')
  <2>1. Stored(dir)' = Listing(Listed)
    BY <1>4, StoredSame, ListingListed
  <2>2. Stored(dir)' \ Listing(Listed) = {} /\ Cardinality({}) = 0
    BY <2>1, FS_EmptySet
  <2>3. \A e, f \in Listed : e.text = f.text => e = f
    BY ListingListed
  <2> DEFINE tot == total'[p]
             sn == since'[p]
             held == Stored(dir)'
  <2>4. /\ tot = Cardinality(Listing(Listed)) /\ sn = 0 /\ Cardinality(held \ Listing(Listed)) = 0
    BY <1>6, <2>2
  <2> HIDE DEF tot, sn, held
  <2>5. Cardinality(held \ Listing(Listed)) <= sn
    BY <2>4
  <2>6. Counted(x, tot, sn, held)
    BY <1>3, <1>5, <2>3, <2>4, <2>5 DEF Counted
  <2> QED BY <2>6 DEF tot, sn, held
<1> QED BY <1>2, <1>3, <1>4, <1>6, <1>7, <1>8, StoreFacts, BudgetFacts, QuietBudget

\* One entry less in an index takes its bytes off what the index lists.
LEMMA ListingWithout ==
  ASSUME NEW I \in SUBSET Entries, NEW e \in I, IsFiniteSet(Listing(I)), \A f, g \in I : f.text = g.text => f = g
  PROVE  /\ Listing(I \ {e}) = Listing(I) \ ({e.text} \X (1..e.size))
         /\ IsFiniteSet(Listing(I \ {e})) /\ Cardinality(Listing(I \ {e})) \in Nat
         /\ Cardinality(Listing(I)) = Cardinality(Listing(I \ {e})) + e.size
<1> DEFINE S == {e.text} \X (1..e.size)
           L == Listing(I)
           M == Listing(I \ {e})
<1>1. e.size \in Nat
  BY DEF Entries
<1>2. IsFiniteSet(S) /\ Cardinality(S) = e.size
  BY <1>1, SliceCount
<1>3. S \subseteq L
  BY DEF Listing
<1>4. M = L \ S
  <2>1. ASSUME NEW y \in M PROVE y \in L /\ y \notin S
    <3>1. PICK f \in I \ {e} : y \in {f.text} \X (1..f.size)
      BY DEF Listing
    <3>2. f.text # e.text
      OBVIOUS
    <3> QED BY <3>1, <3>2 DEF Listing
  <2>2. ASSUME NEW y \in L, y \notin S PROVE y \in M
    <3>1. PICK f \in I : y \in {f.text} \X (1..f.size)
      BY DEF Listing
    <3>2. f \in I \ {e}
      BY <2>2, <3>1
    <3> QED BY <3>1, <3>2 DEF Listing
  <2> HIDE DEF S, L, M
  <2> QED BY <2>1, <2>2
<1>5. IsFiniteSet(L)
  OBVIOUS
<1> HIDE DEF S, L, M
<1>6. L \cap S = S
  BY <1>3
<1>7. IsFiniteSet(L \ S) /\ Cardinality(L \ S) = Cardinality(L) - Cardinality(L \cap S)
  BY <1>5, FS_Difference
<1>8. Cardinality(L) \in Nat /\ Cardinality(M) \in Nat
  BY <1>4, <1>5, <1>7, FS_CardinalityType
<1>9. Cardinality(L) = Cardinality(M) + e.size
  <2>1. Cardinality(M) = Cardinality(L) - e.size
    BY <1>2, <1>4, <1>6, <1>7
  <2> QED BY <1>1, <1>8, <2>1
<1> QED BY <1>4, <1>7, <1>8, <1>9 DEF S, L, M

\* A victim that was there leaves the directory and the index together.
LEMMA EvictBudget == ASSUME StoreInv, BudgetInv, NEW p \in Procs, Evict(p) PROVE BudgetInv'
<1> PICK e \in proc[p].index :
      /\ dir' = [dir EXCEPT ![e.text] = 0]
      /\ proc' = [proc EXCEPT ![p].index = @ \ {e}, ![p].raced = @ \/ dir[e.text] = 0]
      /\ total' = [total EXCEPT ![p] = IF dir[e.text] = 0 \/ @ < e.size THEN 0 ELSE @ - e.size]
  BY DEF Evict
<1> DEFINE I == proc[p].index
           i == I \ {e}
           b == proc[p].raced \/ dir[e.text] = 0
           v == IF dir[e.text] = 0 \/ total[p] < e.size THEN 0 ELSE total[p] - e.size
           x == [[proc[p] EXCEPT !.index = i] EXCEPT !.raced = b]
<1>1. /\ proc[p] \in ProcRec /\ I \in SUBSET Entries /\ i \in SUBSET Entries /\ b \in BOOLEAN /\ proc[p].pc = "evict"
      /\ e \in I
  BY StoreFacts, FieldTypes DEF Evict
<1>2. proc' = [proc EXCEPT ![p] = x] /\ file' = file /\ since' = since
  BY StoreFacts DEF Evict
<1>3. e.size \in Nat /\ e.text \in Texts
  BY <1>1 DEF Entries
<1>4. total \in [Procs -> Nat] /\ total[p] \in Nat /\ v \in Nat
  BY <1>3, BudgetFacts
<1>5. total' \in [Procs -> Nat] /\ total'[p] = v /\ \A q \in Procs : q # p => total'[q] = total[q]
  BY <1>4
<1>6. x \in ProcRec
  <2> HIDE DEF i, b, I
  <2> QED BY <1>1, ProcSet
<1>7. /\ x.pc = "evict" /\ x.file = proc[p].file /\ x.result = proc[p].result /\ x.text = proc[p].text
      /\ x.tools = proc[p].tools /\ x.index = i /\ x.raced = b
  <2> HIDE DEF i, b, I
  <2> QED BY <1>1 DEF ProcRec
<1>8. /\ dir' \in [Texts -> 0..Len(file)] /\ dir'[e.text] = 0 /\ \A t \in Texts : dir'[t] \in {0, dir[t]}
  <2>1. dir \in [Texts -> 0..Len(file)] /\ 0 \in 0..Len(file)
    BY StoreFacts
  <2> QED BY <1>3, <2>1
<1>9. Fitted(x)
  <2> HIDE DEF x, i, b, I
  <2> QED BY <1>1, <1>7, BudgetFacts DEF Fitted
<1> DEFINE S == {e.text} \X (1..e.size)
           L == Listing(I)
           M == Listing(i)
<1>10. /\ IsFiniteSet(L) /\ (\A f, g \in I : f.text = g.text => f = g)
       /\ ~proc[p].raced => total[p] = Cardinality(L) /\ Cardinality(Stored(dir) \ L) <= since[p]
  BY <1>1, BudgetFacts DEF Counted
<1>11. M = L \ S /\ IsFiniteSet(M) /\ Cardinality(M) \in Nat /\ Cardinality(L) = Cardinality(M) + e.size
  <2> HIDE DEF I
  <2> QED BY <1>1, <1>10, ListingWithout
<1>12. Stored(dir)' \ M \subseteq Stored(dir) \ L
  <2>1. Stored(dir)' \subseteq Stored(dir)
    BY <1>2, <1>8, StoredShrinks
  <2>2. ASSUME NEW y \in Stored(dir)' PROVE y \notin S
    <3>1. PICK t \in Texts : Readable(dir[t])' /\ y \in {t} \X (1..SizeOf(dir[t])')
      BY <2>2 DEF Stored
    <3>2. t # e.text
      BY <1>8, <3>1 DEF Readable
    <3> QED BY <3>1, <3>2
  <2> HIDE DEF S, L, M
  <2> QED BY <1>11, <2>1, <2>2
<1> DEFINE held == Stored(dir)
           left == Stored(dir)'
           sn == since[p]
           tot == total[p]
<1>13. IsFiniteSet(held) /\ sn \in Nat /\ tot \in Nat
  BY <1>4, StoredFinite, StoreFacts DEF StoreInv
<1>14. left \ M \subseteq held \ L
  BY <1>12
<1>15. ASSUME ~b PROVE v = Cardinality(M) /\ Cardinality(left \ M) <= sn
  <2>1. tot = Cardinality(L) /\ Cardinality(held \ L) <= sn
    BY <1>10, <1>15
  <2>2. v = IF tot < e.size THEN 0 ELSE tot - e.size
    BY <1>15
  <2> HIDE DEF I, i, b, v, S, L, M, held, left, sn, tot
  <2>3. v = Cardinality(M)
    BY <1>3, <1>11, <1>13, <2>1, <2>2
  <2>4. IsFiniteSet(held \ L) /\ Cardinality(held \ L) \in Nat
    BY <1>13, CountSubset
  <2>5. Cardinality(left \ M) \in Nat /\ Cardinality(left \ M) <= Cardinality(held \ L)
    BY <1>14, <2>4, CountSubset
  <2> QED BY <1>13, <2>1, <2>3, <2>4, <2>5
<1>16. \A f, g \in i : f.text = g.text => f = g
  BY <1>10
<1>17. Counted(x, total'[p], since'[p], Stored(dir)')
  <2>1. Counted(x, v, sn, left)
    <3>1. IsFiniteSet(Listing(i)) /\ (~b => v = Cardinality(Listing(i)) /\ Cardinality(left \ Listing(i)) <= sn)
      BY <1>11, <1>15
    <3> HIDE DEF x, i, b, v, sn, left
    <3> QED BY <1>7, <1>16, <3>1 DEF Counted
  <2> QED BY <1>2, <1>5, <2>1
<1> HIDE DEF x
<1>18. /\ x.file \in {0, proc[p].file} /\ x.result # "over" /\ x.pc # "rename"
       /\ since' \in [Procs -> Nat] /\ \A q \in Procs : q # p => since'[q] = since[q]
  BY <1>2, <1>7, StoreFacts, BudgetFacts
<1> QED BY <1>2, <1>5, <1>6, <1>8, <1>9, <1>17, <1>18, QuietBudget

\* A pass ends with room for the record, but for what others added.
LEMMA EvictedBudget == ASSUME StoreInv, BudgetInv, NEW p \in Procs, Evicted(p) PROVE BudgetInv'
<1>1. file' = file /\ dir' = dir /\ since' = since
  BY DEF Evicted
<1>2. total' \in [Procs -> Nat] /\ \A q \in Procs : q # p => total'[q] = total[q]
  BY BudgetFacts DEF Evicted
<1>3. CASE proc[p].text = NoText
  <2>1. Done(p, "none")
    BY <1>3 DEF Evicted
  <2> QED BY <1>1, <1>2, <2>1, StoreFacts, DoneBudget
<1>4. CASE proc[p].text # NoText
  <2> DEFINE x == [proc[p] EXCEPT !.pc = "write"]
             n == Bytes(proc[p].text, proc[p].tools)
             L == Listing(proc[p].index)
             held == Stored(dir)
             sn == since[p]
             tot == total[p]
  <2>1. x \in ProcRec
    BY StoreFacts, ProcSet DEF PCs
  <2>2. /\ x.pc = "write" /\ x.file = proc[p].file /\ x.result = proc[p].result /\ x.text = proc[p].text
        /\ x.tools = proc[p].tools /\ x.raced = proc[p].raced
    BY StoreFacts DEF ProcRec
  <2>3. proc' = [proc EXCEPT ![p] = x] /\ proc[p].pc = "evict"
    BY <1>4 DEF Evicted, Go
  <2>4. n \in Nat /\ n <= Budget
    BY <1>4, <2>3, StoreFacts, FieldTypes, BytesType, BudgetFacts DEF Fitted
  <2>5. IsFiniteSet(held) /\ sn \in Nat /\ tot \in Nat
    BY BudgetFacts, StoredFinite, StoreFacts DEF StoreInv
  <2>6. ASSUME ~proc[p].raced PROVE Cardinality(held) <= Budget - n + sn
    <3>1. IsFiniteSet(L) /\ tot = Cardinality(L) /\ Cardinality(held \ L) <= sn
      BY <2>3, <2>6, BudgetFacts DEF Counted
    <3>2. tot <= Budget - n
      <4>1. CASE proc[p].index = {}
        <5>1. L = {}
          BY <4>1 DEF Listing
        <5>2. tot = 0
          BY <3>1, <5>1, FS_EmptySet
        <5> HIDE DEF n, tot
        <5> QED BY <2>4, <5>2, KvStoreAssumption
      <4>2. CASE total[p] <= Target(p)
        BY <1>4, <4>2 DEF Target
      <4> QED BY <4>1, <4>2 DEF Evicted
    <3> HIDE DEF n, L, held, sn, tot
    <3>3. IsFiniteSet(held \ L) /\ Cardinality(held \ L) \in Nat
      BY <2>5, CountSubset
    <3>4. /\ Cardinality(L \cup (held \ L)) \in Nat /\ Cardinality(L) \in Nat /\ IsFiniteSet(L \cup (held \ L))
          /\ Cardinality(L \cup (held \ L)) <= Cardinality(L) + Cardinality(held \ L)
      BY <3>1, <3>3, CountUnion
    <3>5. Cardinality(held) \in Nat /\ Cardinality(held) <= Cardinality(L \cup (held \ L))
      <4>1. held \subseteq L \cup (held \ L)
        OBVIOUS
      <4> QED BY <3>4, <4>1, CountSubset
    <3> QED BY <2>4, <2>5, <3>1, <3>2, <3>3, <3>4, <3>5, KvStoreAssumption
  <2>7. Fitted(x)
    <3> HIDE DEF x
    <3> QED BY <2>2, <2>4 DEF Fitted
  <2>8. Counted(x, total'[p], since'[p], Stored(dir)')
    <3>1. Stored(dir)' = held /\ since'[p] = sn
      BY <1>1, StoredSame
    <3> HIDE DEF x, held, sn
    <3> QED BY <2>2, <2>6, <3>1 DEF Counted
  <2> HIDE DEF x
  <2>9. /\ x.file \in {0, proc[p].file} /\ x.result # "over" /\ x.pc # "rename"
        /\ since' \in [Procs -> Nat] /\ \A q \in Procs : q # p => since'[q] = since[q]
        /\ dir' \in [Texts -> 0..Len(file)] /\ \A t \in Texts : dir'[t] \in {0, dir[t]}
    BY <1>1, <2>2, StoreFacts, BudgetFacts
  <2> QED BY <1>1, <1>2, <2>1, <2>3, <2>7, <2>8, <2>9, QuietBudget
<1> QED BY <1>3, <1>4

\* The temporary is under no name yet.
LEMMA WriteBudget == ASSUME StoreInv, BudgetInv, NEW p \in Procs, Write(p) PROVE BudgetInv'
<1> DEFINE head == [ctx |-> Ctx[p], kind |-> proc[p].kind, flag |-> proc[p].tools]
           g == [text |-> proc[p].text, ctx |-> Ctx[p], kind |-> proc[p].kind, head |-> head,
                 whole |-> TRUE, trailer |-> proc[p].tools]
           n == Len(file) + 1
           x == [[proc[p] EXCEPT !.pc = "rename"] EXCEPT !.file = n]
<1>1. StoreInv'
  BY WriteInv
<1>2. g.trailer = proc[p].tools
  OBVIOUS
<1>3. file' = Append(file, g) /\ dir' = dir /\ since' = since /\ total' = total /\ proc[p].pc = "write"
  BY DEF Write
<1>4. proc' = [proc EXCEPT ![p] = x]
  BY StoreFacts DEF Write
<1> HIDE DEF g
<1>5. n \in Nat /\ (\A f \in 1..Len(file) : file'[f] = file[f]) /\ file'[n] = g /\ Len(file) \in Nat
  BY <1>3, StoreFacts, AppendProperties
<1>6. x \in ProcRec
  BY <1>5, StoreFacts, ProcSet DEF PCs
<1>7. /\ x.pc = "rename" /\ x.file = n /\ x.text = proc[p].text /\ x.result = proc[p].result
      /\ x.tools = proc[p].tools /\ x.raced = proc[p].raced
  BY StoreFacts DEF ProcRec
<1>8. (\A t \in Texts : dir[t] \in 0..Len(file)) /\ (\A q \in Procs : proc[q].file \in 0..Len(file))
  BY StoreFacts
<1>9. Stored(dir)' = Stored(dir)
  <2>1. \A t \in Texts : /\ Readable(dir[t])' <=> Readable(dir[t])
                         /\ Readable(dir[t]) => SizeOf(dir[t])' = SizeOf(dir[t])
    <3> SUFFICES ASSUME NEW t \in Texts
                 PROVE  /\ Readable(dir[t])' <=> Readable(dir[t])
                        /\ Readable(dir[t]) => SizeOf(dir[t])' = SizeOf(dir[t])
      OBVIOUS
    <3>1. dir[t] # 0 => file'[dir[t]] = file[dir[t]]
      BY <1>5, <1>8
    <3> QED BY <1>3, <3>1 DEF Readable, SizeOf
  <2> QED BY <2>1 DEF Stored
<1> HIDE DEF x, n
<1>10. Fitted(x) /\ Counted(x, total'[p], since'[p], Stored(dir)')
  <2>1. Fitted(proc[p]) /\ Counted(proc[p], total[p], since[p], Stored(dir))
    BY BudgetFacts
  <2>2. Fitted(x)
    BY <1>3, <1>7, <2>1 DEF Fitted
  <2>3. Counted(x, total[p], since[p], Stored(dir))
    BY <1>3, <1>7, <2>1 DEF Counted
  <2> QED BY <1>3, <1>9, <2>2, <2>3
<1>11. n \notin 0..Len(file)
  BY <1>5 DEF n
<1>12. Private(p)'
  <2>1. proc'[p] = x /\ \A q \in Procs : q # p => proc'[q] = proc[q]
    BY <1>4, StoreFacts
  <2> QED BY <1>2, <1>3, <1>5, <1>7, <1>8, <1>11, <2>1 DEF Private
<1>13. \A q \in Procs : q # p /\ proc[q].pc = "rename" =>
           /\ file'[proc[q].file].trailer = file[proc[q].file].trailer
           /\ x.file # proc[q].file /\ \A t \in Texts : dir'[t] # proc[q].file
  <2> SUFFICES ASSUME NEW q \in Procs, q # p, proc[q].pc = "rename"
               PROVE  /\ file'[proc[q].file].trailer = file[proc[q].file].trailer
                      /\ x.file # proc[q].file /\ \A t \in Texts : dir'[t] # proc[q].file
    OBVIOUS
  <2>1. proc[q].file \in 1..Len(file)
    BY <1>8, StoreFacts DEF Holds
  <2>2. \A t \in Texts : dir[t] # proc[q].file
    BY BudgetFacts DEF Private
  <2> QED BY <1>3, <1>5, <1>7, <1>8, <1>11, <2>1, <2>2
<1> DEFINE E == {}
           m == 0
<1>14. IsFiniteSet(E) /\ m \in Nat /\ Cardinality(E) <= m /\ Stored(dir)' \subseteq Stored(dir) \cup E
  BY <1>9, FS_EmptySet
<1>15. /\ \A q \in Procs : q # p /\ proc[q].pc \in {"evict", "write", "rename"} => since'[q] >= since[q] + m
       /\ total' \in [Procs -> Nat] /\ (\A q \in Procs : q # p => total'[q] = total[q]) /\ since' \in [Procs -> Nat]
       /\ x.result # "over"
  BY <1>3, <1>7, StoreFacts, BudgetFacts
<1> HIDE DEF E, m
<1> QED BY <1>4, <1>6, <1>10, <1>12, <1>13, <1>14, <1>15, BudgetStep

\* A record that is renamed adds its own bytes at most, which is what each
\* process that is making room is charged with and what its own pass left.
LEMMA RenameBudget == ASSUME StoreInv, BudgetInv, NEW p \in Procs, Rename(p) PROVE BudgetInv'
<1> DEFINE d == [dir EXCEPT ![proc[p].text] = proc[p].file]
           v == IF Over(p, d) /\ ~proc[p].raced THEN "over" ELSE "stored"
           x == [Idle EXCEPT !.result = v]
           k == SizeOf(proc[p].file)
           E == {proc[p].text} \X (1..k)
<1>1. proc' = [proc EXCEPT ![p] = x] /\ dir' = d /\ file' = file /\ total' = total /\ since' = Added(p, k) /\ proc[p].pc = "rename"
  BY DEF Rename, Done
<1>2. /\ proc[p].text \in Texts /\ proc[p].file \in 1..Len(file)
      /\ file[proc[p].file].text = proc[p].text /\ file[proc[p].file].trailer = proc[p].tools
  BY <1>1, StoreFacts, BudgetFacts DEF Holds, Private
<1>3. k = Bytes(proc[p].text, proc[p].tools)
  BY <1>2 DEF SizeOf
<1>4. k \in Nat /\ IsFiniteSet(E) /\ Cardinality(E) = k
  <2>1. k \in Nat
    BY <1>2, SizeType DEF StoreInv
  <2> HIDE DEF k
  <2> QED BY <2>1, SliceCount
<1>5. Stored(d) \subseteq Stored(dir) \cup E /\ Stored(dir)' = Stored(d)
  <2>1. Stored(dir)' = Stored(d)
    <3> HIDE DEF d
    <3> QED BY <1>1 DEF Stored, Readable, SizeOf
  <2>2. ASSUME NEW y \in Stored(d) PROVE y \in Stored(dir) \cup E
    <3>1. PICK t \in Texts : Readable(d[t]) /\ y \in {t} \X (1..SizeOf(d[t]))
      BY <2>2 DEF Stored
    <3>2. CASE t = proc[p].text
      <4>1. d[t] = proc[p].file
        BY <1>2, <3>2, StoreFacts
      <4> QED BY <3>1, <3>2, <4>1
    <3>3. CASE t # proc[p].text
      <4>1. d[t] = dir[t]
        BY <3>3, StoreFacts
      <4>2. Readable(dir[t]) /\ y \in {t} \X (1..SizeOf(dir[t]))
        BY <3>1, <4>1
      <4>3. y \in Stored(dir)
        BY <4>2 DEF Stored
      <4> QED BY <4>3
    <3> QED BY <3>2, <3>3
  <2> QED BY <2>1, <2>2
<1> DEFINE held == Stored(dir)
           now == Stored(d)
           sn == since[p]
<1>6. IsFiniteSet(held) /\ sn \in Nat /\ now \subseteq held \cup E
  BY <1>5, StoredFinite, StoreFacts DEF StoreInv
<1>7. v = "stored"
  <2> SUFFICES ASSUME ~proc[p].raced PROVE ~(Cardinality(now) > Budget + sn)
    BY DEF Over
  <2>1. Cardinality(held) <= Budget - k + sn
    BY <1>1, <1>3, BudgetFacts DEF Counted
  <2> HIDE DEF held, now, sn, E, k
  <2>2. /\ Cardinality(held \cup E) \in Nat /\ Cardinality(held) \in Nat /\ IsFiniteSet(held \cup E)
        /\ Cardinality(held \cup E) <= Cardinality(held) + Cardinality(E)
    BY <1>4, <1>6, CountUnion
  <2>3. Cardinality(now) \in Nat /\ Cardinality(now) <= Cardinality(held \cup E)
    BY <1>6, <2>2, CountSubset
  <2> QED BY <1>4, <1>6, <2>1, <2>2, <2>3, KvStoreAssumption
<1>8. x \in ProcRec /\ x.pc = "idle" /\ x.file = 0 /\ x.result = "stored"
  <2> HIDE DEF v
  <2> QED BY <1>7, DoneType
<1>9. since' \in [Procs -> Nat]
  <2> HIDE DEF k
  <2> QED BY <1>1, <1>4, AddedType DEF StoreInv
<1>10. \A q \in Procs : q # p /\ proc[q].pc \in {"evict", "write", "rename"} => since'[q] >= since[q] + k
  <2> HIDE DEF k
  <2>1. \A q \in Procs : q # p /\ proc[q].pc \in {"evict", "write", "rename"} => since'[q] = since[q] + k
    BY <1>1 DEF Added
  <2>2. \A q \in Procs : since[q] \in Nat
    BY StoreFacts
  <2> QED BY <1>4, <2>1, <2>2
<1>11. \A q \in Procs : q # p /\ proc[q].pc = "rename" =>
           /\ file'[proc[q].file].trailer = file[proc[q].file].trailer
           /\ x.file # proc[q].file /\ \A t \in Texts : dir'[t] # proc[q].file
  <2> SUFFICES ASSUME NEW q \in Procs, q # p, proc[q].pc = "rename"
               PROVE  x.file # proc[q].file /\ \A t \in Texts : dir'[t] # proc[q].file
    BY <1>1
  <2>1. proc[q].file # 0
    BY StoreFacts DEF Holds
  <2>2. (\A t \in Texts : dir[t] # proc[q].file) /\ proc[p].file # proc[q].file
    BY BudgetFacts DEF Private
  <2>3. \A t \in Texts : dir'[t] \in {dir[t], proc[p].file}
    BY <1>1, <1>2, StoreFacts
  <2> QED BY <1>8, <2>1, <2>2, <2>3
<1> HIDE DEF x
<1>12. Private(p)' /\ Elsewhere(x)
  <2>1. proc'[p] = x
    BY <1>1, StoreFacts
  <2> QED BY <1>8, <2>1 DEF Private, Elsewhere
<1>13. Fitted(x) /\ Counted(x, total'[p], since'[p], Stored(dir)')
  <2> DEFINE tt == total'[p]
             sm == since'[p]
             h == Stored(dir)'
  <2> HIDE DEF tt, sm, h
  <2>1. Fitted(x) /\ Counted(x, tt, sm, h)
    BY <1>12, ElsewhereOK
  <2> QED BY <2>1 DEF tt, sm, h
<1>14. Cardinality(E) <= k /\ Stored(dir)' \subseteq Stored(dir) \cup E /\ total' \in [Procs -> Nat] /\ x.result # "over"
       /\ \A q \in Procs : q # p => total'[q] = total[q]
  <2>1. Cardinality(E) <= k
    <3> HIDE DEF E, k
    <3> QED BY <1>4
  <2> QED BY <1>1, <1>5, <1>8, <2>1, BudgetFacts
<1> HIDE DEF k, E
<1> QED BY <1>1, <1>4, <1>8, <1>9, <1>10, <1>11, <1>12, <1>13, <1>14, BudgetStep

LEMMA StoreFailsBudget == ASSUME StoreInv, BudgetInv, NEW p \in Procs, StoreFails(p) PROVE BudgetInv'
BY StoreFacts, BudgetFacts, DoneBudget DEF StoreFails

\* A step that rewrites the file a process holds, and adds n bytes to it.
LEMMA RewriteBudget ==
  ASSUME StoreInv, BudgetInv, NEW p \in Procs, NEW i \in 1..Len(file), i = proc[p].file, NEW g \in FileRec,
         file' = [file EXCEPT ![i] = g], Kept(g, file[i]), dir' = dir, total' = total, since' \in [Procs -> Nat],
         NEW x \in ProcRec, proc' = [proc EXCEPT ![p] = x], Elsewhere(x), x.file \in {0, i},
         NEW n \in {0, 1}, g.trailer /\ ~file[i].trailer => n = 1,
         \A q \in Procs : q # p /\ proc[q].pc \in {"evict", "write", "rename"} => since'[q] >= since[q] + n
  PROVE  BudgetInv'
<1> DEFINE T == file[i].text
           c == Bytes(T, TRUE)
           E == IF n = 0 THEN {} ELSE {<<T, c>>}
<1>1. file[i] \in FileRec /\ T \in Texts /\ g.text = T /\ g.whole = file[i].whole /\ g.trailer \in BOOLEAN /\ file[i].trailer \in BOOLEAN
  BY StoreFacts, FieldTypes DEF Kept
<1>2. \A f \in 1..Len(file) : file'[f] = IF f = i THEN g ELSE file[f]
  BY StoreFacts, ExceptSeq
<1>3. IsFiniteSet(E) /\ Cardinality(E) <= n
  <2> DEFINE y == <<T, c>>
  <2>1. IsFiniteSet({}) /\ Cardinality({}) = 0
    BY FS_EmptySet
  <2>2. IsFiniteSet({y}) /\ Cardinality({y}) = 1
    <3> HIDE DEF y
    <3> QED BY FS_Singleton
  <2> HIDE DEF y
  <2>3. CASE n = 0
    BY <2>1, <2>3
  <2>4. CASE n # 0
    <3>1. E = {y} /\ n = 1
      BY <2>4 DEF y
    <3> HIDE DEF E
    <3> QED BY <2>2, <3>1
  <2> QED BY <2>3, <2>4
<1>4. \A t \in Texts : dir[t] \in 0..Len(file) /\ (dir[t] = i => t = T)
  BY StoreFacts DEF StoreInv, NamesTrue
<1>5. Len(T) \in Nat
  BY <1>1, KvStoreAssumption
<1>6. Stored(dir)' \subseteq Stored(dir) \cup E
  <2> SUFFICES ASSUME NEW y \in Stored(dir)' PROVE y \in Stored(dir) \cup E
    OBVIOUS
  <2>1. PICK t \in Texts : Readable(dir[t])' /\ y \in {t} \X (1..SizeOf(dir[t])')
    BY DEF Stored
  <2>2. dir[t] \in 1..Len(file)
    BY <1>4, <2>1 DEF Readable
  <2>3. CASE dir[t] # i
    <3>1. file'[dir[t]] = file[dir[t]]
      BY <1>2, <2>2, <2>3
    <3>2. Readable(dir[t]) /\ SizeOf(dir[t])' = SizeOf(dir[t])
      BY <2>1, <3>1 DEF Readable, SizeOf
    <3>3. y \in Stored(dir)
      BY <2>1, <3>2 DEF Stored
    <3> QED BY <3>3
  <2>4. CASE dir[t] = i
    <3>1. t = T /\ file'[dir[t]] = g /\ file[dir[t]] = file[i]
      BY <1>2, <1>4, <2>4
    <3>2. Readable(dir[t]) /\ SizeOf(dir[t])' = Bytes(T, g.trailer) /\ SizeOf(dir[t]) = Bytes(T, file[i].trailer)
      BY <1>1, <2>1, <3>1 DEF Readable, SizeOf
    <3>3. PICK j \in 1..Bytes(T, g.trailer) : y = <<T, j>>
      BY <2>1, <3>1, <3>2
    <3>4. CASE j \in 1..Bytes(T, file[i].trailer)
      <4>1. y \in {t} \X (1..SizeOf(dir[t]))
        BY <3>1, <3>2, <3>3, <3>4
      <4>2. y \in Stored(dir)
        BY <3>2, <4>1 DEF Stored
      <4> QED BY <4>2
    <3>5. CASE j \notin 1..Bytes(T, file[i].trailer)
      <4>1. g.trailer /\ ~file[i].trailer /\ j = c
        <5>1. g.trailer = TRUE \/ g.trailer = FALSE
          BY <1>1
        <5>2. file[i].trailer = TRUE \/ file[i].trailer = FALSE
          BY <1>1
        <5> DEFINE l == Len(T)
                   a == g.trailer
                   b == file[i].trailer
        <5>3. j \in 1..(l + 1 + (IF a THEN 1 ELSE 0)) /\ j \notin 1..(l + 1 + (IF b THEN 1 ELSE 0)) /\ l \in Nat /\ c = l + 1 + 1
          BY <1>5, <3>5 DEF Bytes, TrailerBytes
        <5> HIDE DEF l, a, b, c
        <5>4. a /\ ~b /\ j = c
          BY <5>3
        <5> QED BY <5>4 DEF a, b
      <4>2. n = 1
        BY <4>1
      <4> QED BY <3>3, <4>1, <4>2
    <3> QED BY <3>4, <3>5
  <2> QED BY <2>3, <2>4
<1>7. \A q \in Procs : q # p /\ proc[q].pc = "rename" =>
           /\ file'[proc[q].file].trailer = file[proc[q].file].trailer
           /\ x.file # proc[q].file /\ \A t \in Texts : dir'[t] # proc[q].file
  <2> SUFFICES ASSUME NEW q \in Procs, q # p, proc[q].pc = "rename"
               PROVE  /\ file'[proc[q].file].trailer = file[proc[q].file].trailer
                      /\ x.file # proc[q].file /\ \A t \in Texts : dir'[t] # proc[q].file
    OBVIOUS
  <2>1. proc[q].file \in 1..Len(file)
    BY StoreFacts DEF Holds
  <2>2. (\A t \in Texts : dir[t] # proc[q].file) /\ proc[p].file # proc[q].file
    BY BudgetFacts DEF Private
  <2> QED BY <1>2, <2>1, <2>2
<1>8. Private(p)'
  <2>1. proc'[p] = x
    BY StoreFacts
  <2> QED BY <2>1 DEF Private, Elsewhere
<1>9. Fitted(x) /\ Counted(x, total'[p], since'[p], Stored(dir)')
  <2> DEFINE tt == total'[p]
             sm == since'[p]
             h == Stored(dir)'
  <2> HIDE DEF tt, sm, h
  <2>1. Fitted(x) /\ Counted(x, tt, sm, h)
    BY ElsewhereOK
  <2> QED BY <2>1 DEF tt, sm, h
<1>10. /\ total' \in [Procs -> Nat] /\ (\A q \in Procs : q # p => total'[q] = total[q]) /\ x.result # "over" /\ n \in Nat
  BY BudgetFacts DEF Elsewhere
<1> HIDE DEF E
<1> QED BY <1>3, <1>6, <1>7, <1>8, <1>9, <1>10, BudgetStep

LEMMA TrailerBudget ==
  ASSUME StoreInv, BudgetInv, NEW p \in Procs, NEW b \in BOOLEAN, NEW at \in {"append", "flag"},
         proc[p].pc \in {"cut", "append"}, Go(p, at), total' = total,
         file' = [file EXCEPT ![proc[p].file].trailer = b], dir' = dir, since' \in [Procs -> Nat],
         NEW n \in {0, 1}, b => n = 1,
         \A q \in Procs : q # p /\ proc[q].pc \in {"evict", "write", "rename"} => since'[q] >= since[q] + n
  PROVE  BudgetInv'
<1> DEFINE i == proc[p].file
           x == [proc[p] EXCEPT !.pc = at]
           g == [file[i] EXCEPT !.trailer = b]
<1>1. i \in 1..Len(file) /\ at \in PCs
  BY StoreFacts DEF Holds, PCs
<1>2. file[i] \in FileRec /\ Describes(file[i].head, file[i])
  BY <1>1, StoreFacts
<1>3. g \in FileRec /\ Kept(g, file[i])
  BY <1>2, TrailerSet
<1>4. g.trailer = b
  BY <1>2 DEF FileRec
<1>5. file' = [file EXCEPT ![i] = g] /\ proc' = [proc EXCEPT ![p] = x]
  BY DEF Go
<1>6. x \in ProcRec
  BY <1>1, StoreFacts, ProcSet
<1>7. x.pc = at /\ x.file = i /\ x.result = proc[p].result
  BY StoreFacts DEF ProcRec
<1> HIDE DEF x, g
<1>8. Elsewhere(x) /\ x.file \in {0, i} /\ (g.trailer /\ ~file[i].trailer => n = 1)
  BY <1>4, <1>7, BudgetFacts DEF Elsewhere
<1> QED BY <1>1, <1>3, <1>5, <1>6, <1>8, RewriteBudget

LEMMA CutTrailerBudget == ASSUME StoreInv, BudgetInv, NEW p \in Procs, CutTrailer(p) PROVE BudgetInv'
<1> DEFINE n == 0
           b == FALSE
<1>1. /\ n \in {0, 1} /\ (b => n = 1) /\ b \in BOOLEAN /\ since' \in [Procs -> Nat]
      /\ \A q \in Procs : q # p /\ proc[q].pc \in {"evict", "write", "rename"} => since'[q] >= since[q] + n
  BY StoreFacts DEF CutTrailer
<1>2. /\ file' = [file EXCEPT ![proc[p].file].trailer = b] /\ dir' = dir /\ total' = total /\ Go(p, "append")
      /\ proc[p].pc = "cut"
  BY DEF CutTrailer
<1> HIDE DEF n, b
<1> QED BY <1>1, <1>2, TrailerBudget

LEMMA AppendTrailerBudget == ASSUME StoreInv, BudgetInv, NEW p \in Procs, AppendTrailer(p) PROVE BudgetInv'
<1> DEFINE n == 1
           b == TRUE
<1>1. n \in {0, 1} /\ (b => n = 1) /\ b \in BOOLEAN
  OBVIOUS
<1>2. since' = Added(p, n) /\ since' \in [Procs -> Nat]
  BY AddedType DEF AppendTrailer, StoreInv, TrailerBytes
<1>3. \A q \in Procs : q # p /\ proc[q].pc \in {"evict", "write", "rename"} => since'[q] >= since[q] + n
  <2>1. \A q \in Procs : since[q] \in Nat
    BY StoreFacts
  <2> QED BY <1>2, <2>1 DEF Added
<1>4. /\ file' = [file EXCEPT ![proc[p].file].trailer = b] /\ dir' = dir /\ total' = total /\ Go(p, "flag")
      /\ proc[p].pc = "append"
  BY DEF AppendTrailer
<1> HIDE DEF n, b
<1> QED BY <1>1, <1>2, <1>3, <1>4, TrailerBudget

\* A header is rewritten in its place.
LEMMA HeaderBudget ==
  ASSUME StoreInv, BudgetInv, NEW p \in Procs, NEW head \in Heads, NEW v \in {"none", "stored", "loaded"},
         proc[p].file \in 1..Len(file), Done(p, v), total' = total,
         file' = [file EXCEPT ![proc[p].file].head = head], dir' = dir, since' = since
  PROVE  BudgetInv'
<1> DEFINE i == proc[p].file
           x == [Idle EXCEPT !.result = v]
           g == [file[i] EXCEPT !.head = head]
           n == 0
<1>1. file[i] \in FileRec
  BY StoreFacts
<1>2. g \in FileRec /\ Kept(g, file[i]) /\ g.trailer = file[i].trailer
  BY <1>1 DEF FileRec, Kept
<1>3. file' = [file EXCEPT ![i] = g] /\ proc' = [proc EXCEPT ![p] = x]
  BY DEF Done
<1>4. x \in ProcRec /\ x.pc = "idle" /\ x.file = 0 /\ x.result = v
  BY DoneType
<1> HIDE DEF x, g
<1>5. /\ n \in {0, 1} /\ (g.trailer /\ ~file[i].trailer => n = 1) /\ since' \in [Procs -> Nat]
      /\ \A q \in Procs : q # p /\ proc[q].pc \in {"evict", "write", "rename"} => since'[q] >= since[q] + n
  BY <1>2, StoreFacts
<1>6. Elsewhere(x) /\ x.file \in {0, i}
  BY <1>4 DEF Elsewhere
<1> HIDE DEF n
<1> QED BY <1>2, <1>3, <1>4, <1>5, <1>6, RewriteBudget

LEMMA WriteFlagBudget == ASSUME StoreInv, BudgetInv, NEW p \in Procs, WriteFlag(p) PROVE BudgetInv'
<1> DEFINE head == [proc[p].head EXCEPT !.flag = TRUE]
<1>1. proc[p].file \in 1..Len(file) /\ proc[p].head \in Heads
  BY StoreFacts, FieldTypes DEF WriteFlag, Holds
<1>2. head \in Heads
  BY <1>1 DEF Heads
<1>3. file' = [file EXCEPT ![proc[p].file].head = head]
  BY DEF WriteFlag
<1> HIDE DEF head
<1> QED BY <1>1, <1>2, <1>3, HeaderBudget DEF WriteFlag

LEMMA TouchWriteBudget == ASSUME StoreInv, BudgetInv, NEW p \in Procs, TouchWrite(p) PROVE BudgetInv'
<1>1. proc[p].file \in 1..Len(file) /\ proc[p].head \in Heads
  BY StoreFacts, FieldTypes DEF TouchWrite, Holds
<1>2. proc[p].result \in {"none", "stored", "loaded"}
  BY StoreFacts, BudgetFacts DEF ProcRec, Looks
<1> QED BY <1>1, <1>2, HeaderBudget DEF TouchWrite

LEMMA OpenTrailerBudget == ASSUME StoreInv, BudgetInv, NEW p \in Procs, OpenTrailer(p) PROVE BudgetInv'
<1> DEFINE f == dir[proc[p].text]
           x == [[[proc[p] EXCEPT !.pc = "cut"] EXCEPT !.file = f] EXCEPT !.head = file[f].head]
<1>1. /\ dir' = dir /\ file' = file /\ since' = since /\ total' = total /\ dir \in [Texts -> 0..Len(file)]
      /\ total' \in [Procs -> Nat]
  BY StoreFacts, BudgetFacts DEF OpenTrailer
<1>2. CASE ~proc[p].tools \/ f = 0
  <2>1. Done(p, "stored")
    BY <1>2 DEF OpenTrailer
  <2> QED BY <1>1, <2>1, DoneBudget
<1>3. CASE proc[p].tools /\ f # 0
  <2>1. proc[p].text \in Texts /\ f \in 1..Len(file)
    BY <1>1, <1>3, StoreFacts DEF OpenTrailer, Holds
  <2>2. file[f].head \in Heads /\ f \in Nat /\ "cut" \in PCs
    BY <2>1, StoreFacts DEF PCs
  <2>3. proc' = [proc EXCEPT ![p] = x]
    BY <1>3, StoreFacts DEF OpenTrailer
  <2>4. \E t \in Texts : f = dir[t]
    BY <2>1
  <2> HIDE DEF f
  <2>5. x \in ProcRec
    BY <2>2, StoreFacts, ProcSet
  <2>6. x.pc = "cut" /\ x.file = f /\ x.result = proc[p].result
    BY StoreFacts DEF ProcRec
  <2> HIDE DEF x
  <2>7. Elsewhere(x)
    BY <2>6, BudgetFacts DEF Elsewhere
  <2> QED BY <1>1, <2>3, <2>4, <2>5, <2>6, <2>7, BesideBudget
<1> QED BY <1>2, <1>3

LEMMA FindBudget ==
  ASSUME StoreInv, BudgetInv, NEW p \in Procs, NEW prompt \in Texts, Find(p, prompt) PROVE BudgetInv'
<1>1. /\ dir' = dir /\ file' = file /\ since' = since /\ total' = total /\ dir \in [Texts -> 0..Len(file)]
      /\ total' \in [Procs -> Nat]
  BY StoreFacts, BudgetFacts DEF Find
<1>2. CASE Done(p, "none")
  BY <1>1, <1>2, DoneBudget
<1>3. CASE ~Done(p, "none")
  <2> PICK e \in Candidates(p, prompt) :
        proc' = [proc EXCEPT ![p] = [Idle EXCEPT !.pc = "open", !.text = e.text, !.head = e.head,
                                                 !.equal = e.text = prompt]]
    BY <1>3 DEF Find
  <2> DEFINE b == (e.text = prompt)
             y == [[Idle EXCEPT !.pc = "open"] EXCEPT !.text = e.text]
             x == [[y EXCEPT !.head = e.head] EXCEPT !.equal = b]
  <2>1. e \in Entries
    BY ListedType DEF StoreInv, Candidates
  <2>2. e.text \in Texts /\ e.head \in Heads /\ b \in BOOLEAN
    BY <2>1 DEF Entries
  <2>3. proc' = [proc EXCEPT ![p] = x]
    OBVIOUS
  <2> HIDE DEF b
  <2>4. y \in ProcRec /\ y.pc = "open" /\ y.result = "none" /\ y.file = 0
    BY <2>2, IdleType, ProcSet DEF Idle, PCs
  <2> HIDE DEF y
  <2>5. x \in ProcRec
    BY <2>2, <2>4, ProcSet
  <2>6. x.pc = "open" /\ x.result = "none" /\ x.file = 0
    BY <2>4 DEF ProcRec
  <2> HIDE DEF x
  <2>7. Elsewhere(x)
    BY <2>6 DEF Elsewhere
  <2> QED BY <1>1, <2>3, <2>5, <2>6, <2>7, BesideBudget
<1> QED BY <1>2, <1>3

LEMMA OpenRecordBudget == ASSUME StoreInv, BudgetInv, NEW p \in Procs, OpenRecord(p) PROVE BudgetInv'
<1> DEFINE f == dir[proc[p].text]
           x == [[[proc[p] EXCEPT !.pc = "load"] EXCEPT !.file = f] EXCEPT !.head = file[f].head]
<1>1. /\ dir' = dir /\ file' = file /\ since' = since /\ total' = total /\ dir \in [Texts -> 0..Len(file)]
      /\ total' \in [Procs -> Nat]
  BY StoreFacts, BudgetFacts DEF OpenRecord
<1>2. CASE Done(p, "none")
  BY <1>1, <1>2, DoneBudget
<1>3. CASE f # 0 /\ Reopened(file[f].head, proc[p].head, proc[p].equal)
  <2>1. proc[p].text \in Texts /\ f \in 1..Len(file)
    BY <1>1, <1>3, StoreFacts DEF OpenRecord, Holds
  <2>2. file[f].head \in Heads /\ f \in Nat /\ "load" \in PCs
    BY <2>1, StoreFacts DEF PCs
  <2>3. proc' = [proc EXCEPT ![p] = x]
    BY <1>3, StoreFacts DEF OpenRecord
  <2>4. \E t \in Texts : f = dir[t]
    BY <2>1
  <2> HIDE DEF f
  <2>5. x \in ProcRec
    BY <2>2, StoreFacts, ProcSet
  <2>6. x.pc = "load" /\ x.file = f /\ x.result = proc[p].result
    BY StoreFacts DEF ProcRec
  <2> HIDE DEF x
  <2>7. Elsewhere(x)
    BY <2>6, BudgetFacts DEF Elsewhere
  <2> QED BY <1>1, <2>3, <2>4, <2>5, <2>6, <2>7, BesideBudget
<1> QED BY <1>2, <1>3 DEF OpenRecord

LEMMA LoadPayloadBudget == ASSUME StoreInv, BudgetInv, NEW p \in Procs, LoadPayload(p) PROVE BudgetInv'
<1> DEFINE f == proc[p].file
           x == [[proc[p] EXCEPT !.pc = "touch"] EXCEPT !.result = "loaded"]
<1>1. /\ Describes(proc[p].head, file[f]) /\ proc[p].head.ctx <= Ctx[p] /\ file[f].whole
      /\ (proc[p].head.kind = "bank" => ~proc[p].equal)
  BY StoreFacts DEF LoadPayload, Recalls, Looks
<1>2. Loads(p, f) /\ file[f].ctx = proc[p].head.ctx /\ ~(file[f].kind = "bank" /\ proc[p].equal)
  BY <1>1 DEF Loads, Describes
<1>3. proc' = [proc EXCEPT ![p].pc = "touch", ![p].result = "loaded"] /\ dir' = dir
  BY <1>2 DEF LoadPayload
<1>4. proc' = [proc EXCEPT ![p] = x] /\ file' = file /\ since' = since /\ total' = total
  BY <1>3, StoreFacts DEF LoadPayload
<1>5. x \in ProcRec
  BY StoreFacts, ProcSet DEF PCs
<1>6. x.pc = "touch" /\ x.file = proc[p].file /\ x.result = "loaded"
  BY StoreFacts DEF ProcRec
<1> HIDE DEF x
<1>7. Elsewhere(x)
  BY <1>6 DEF Elsewhere
<1> QED BY <1>3, <1>4, <1>5, <1>6, <1>7, StoreFacts, BudgetFacts, BesideBudget

LEMMA TouchReadBudget == ASSUME StoreInv, BudgetInv, NEW p \in Procs, TouchRead(p) PROVE BudgetInv'
<1> DEFINE f == dir[proc[p].text]
           x == [[[proc[p] EXCEPT !.pc = "hit"] EXCEPT !.file = f] EXCEPT !.head = file[f].head]
<1>1. /\ dir' = dir /\ file' = file /\ since' = since /\ total' = total /\ dir \in [Texts -> 0..Len(file)]
      /\ total' \in [Procs -> Nat]
  BY StoreFacts, BudgetFacts DEF TouchRead
<1>2. CASE f = 0
  <2>1. Done(p, proc[p].result) /\ proc[p].result \in {"none", "stored", "loaded"}
    BY <1>2, StoreFacts, BudgetFacts DEF TouchRead, ProcRec, Looks
  <2> QED BY <1>1, <2>1, DoneBudget
<1>3. CASE f # 0
  <2>1. proc[p].text \in Texts /\ f \in 1..Len(file)
    BY <1>1, <1>3, StoreFacts DEF TouchRead, Holds
  <2>2. file[f].head \in Heads /\ f \in Nat /\ "hit" \in PCs
    BY <2>1, StoreFacts DEF PCs
  <2>3. proc' = [proc EXCEPT ![p] = x]
    BY <1>3, StoreFacts DEF TouchRead
  <2>4. \E t \in Texts : f = dir[t]
    BY <2>1
  <2> HIDE DEF f
  <2>5. x \in ProcRec
    BY <2>2, StoreFacts, ProcSet
  <2>6. x.pc = "hit" /\ x.file = f /\ x.result = proc[p].result
    BY StoreFacts DEF ProcRec
  <2> HIDE DEF x
  <2>7. Elsewhere(x)
    BY <2>6, BudgetFacts DEF Elsewhere
  <2> QED BY <1>1, <2>3, <2>4, <2>5, <2>6, <2>7, BesideBudget
<1> QED BY <1>2, <1>3

LEMMA CrashBudget == ASSUME StoreInv, BudgetInv, NEW p \in Procs, Crash(p) PROVE BudgetInv'
<1>1. Elsewhere(Closed)
  BY ClosedFacts DEF Elsewhere
<1>2. proc' = [proc EXCEPT ![p] = Closed] /\ file' = file /\ dir' = dir /\ since' = since
  BY DEF Crash
<1>3. total' \in [Procs -> Nat] /\ \A q \in Procs : q # p => total'[q] = total[q]
  BY BudgetFacts DEF Crash
<1> QED BY <1>1, <1>2, <1>3, ClosedFacts, StoreFacts, BesideBudget

\* Where no process is at work, nothing is counted.
LEMMA AllClosed ==
  ASSUME proc' = [p \in Procs |-> Closed], total' = [p \in Procs |-> 0] PROVE BudgetInv'
BY ClosedFacts DEF BudgetInv, Fitted, Counted, Private

LEMMA InitBudget == Init => BudgetInv
BY ClosedFacts DEF Init, BudgetInv, Fitted, Counted, Private

\* Together with StoreInv, BudgetInv is inductive: a store leaves the records
\* within the budget but for what other processes added since it looked and
\* for a pass that met a victim already gone (ds4_kvstore_evict), and what a
\* pass has counted never wraps.
THEOREM BudgetKeptHolds == Spec => []BudgetKept
<1>1. StoreInv /\ BudgetInv /\ [Next]_vars => BudgetInv'
  <2> SUFFICES ASSUME StoreInv, BudgetInv, [Next]_vars PROVE BudgetInv'
    OBVIOUS
  <2>1. CASE UNCHANGED vars
    <3>1. Stored(dir)' = Stored(dir)
      BY <2>1, StoredSame DEF vars
    <3> QED BY <2>1, <3>1 DEF vars, BudgetInv, Fitted, Counted, Private
  <2>2. ASSUME NEW p \in Procs,
               \/ Open(p) \/ Replace(p) \/ Stage(p) \/ Refresh(p) \/ Evict(p) \/ Evicted(p)
               \/ Write(p) \/ Rename(p) \/ StoreFails(p)
        PROVE  BudgetInv'
    BY <2>2, OpenBudget, ReplaceBudget, StageBudget, RefreshBudget, EvictBudget, EvictedBudget, WriteBudget,
       RenameBudget, StoreFailsBudget
  <2>3. ASSUME NEW p \in Procs,
               \/ OpenTrailer(p) \/ CutTrailer(p) \/ AppendTrailer(p) \/ WriteFlag(p)
               \/ OpenRecord(p) \/ LoadPayload(p) \/ TouchRead(p) \/ TouchWrite(p) \/ Crash(p)
        PROVE  BudgetInv'
    BY <2>3, OpenTrailerBudget, CutTrailerBudget, AppendTrailerBudget, WriteFlagBudget, OpenRecordBudget,
       LoadPayloadBudget, TouchReadBudget, TouchWriteBudget, CrashBudget
  <2>4. ASSUME NEW p \in Procs, NEW t \in Texts,
               Find(p, t) \/ \E k \in Kinds, b \in BOOLEAN : Store(p, t, k, b)
        PROVE  BudgetInv'
    BY <2>4, FindBudget, StoreBudget
  <2>5. ASSUME NEW t \in Texts, PowerCut(t) PROVE BudgetInv'
    BY <2>5, AllClosed DEF PowerCut
  <2> QED BY <2>1, <2>2, <2>3, <2>4, <2>5 DEF Next
<1>2. BudgetInv => BudgetKept
  BY DEF BudgetInv, BudgetKept
<1> QED BY <1>1, <1>2, InitBudget, StoreInvariant, PTL DEF Spec
=============================================================================
