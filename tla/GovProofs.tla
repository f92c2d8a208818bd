------------------------------ MODULE GovProofs ------------------------------
(***************************************************************************)
(* The memory governor.  First the versioned snapshot protocol of the      *)
(* ledger, a specification of its own, proved for any number of readers,   *)
(* consumers, values, attempts and publications, and for at most one       *)
(* writer, which is the code's precondition.  Then the funding of cache    *)
(* growth.  Its quantities are sums over the banks: that part begins with  *)
(* induction on the naturals, in the form of sets, and the facts about     *)
(* SumOver that the rest uses (monotony, the change of one bank, the sum   *)
(* of zeros).                                                              *)
(***************************************************************************)
EXTENDS GovLedger, MemGov, TLAPS, WellFoundedInduction

\* ds4_gov_publish_use and _publish_reservation are called by one thread.
OneWriter == \A v, w \in Writers : v = w

\* No lease of ledger l is one the evaluator fails on.
Sane(l) == \A c \in Consumers : l[<<c, "resident">>] <= l[<<c, "intent">>]

-----------------------------------------------------------------------------
(* The inductive invariant. *)

\* Where the writer is determines the epoch.
EpochOf(w) ==
  /\ writer[w].pc = "idle" => epoch = 2 * publishes
  /\ writer[w].pc = "begin" => publishes > 0 /\ epoch = 2 * publishes - 2 /\ writer[w].seen = epoch
  /\ writer[w].pc \in {"lease", "write", "loaded"} => publishes > 0 /\ epoch = 2 * publishes - 1
  /\ writer[w].pc = "loaded" => writer[w].seen = epoch

\* While a lease is replaced, its words are the old ones or the new ones, and
\* the new ones are sane together; every other lease is sane.
Replacing(w) ==
  \/ writer[w].left = {} /\ Sane(ledger)
  \/ /\ writer[w].lease["resident"] <= writer[w].lease["intent"]
     /\ \A f \in Fields \ writer[w].left : ledger[<<writer[w].pub.consumer, f>>] = writer[w].lease[f]
     /\ \A c \in Consumers \ {writer[w].pub.consumer} :
          ledger[<<c, "resident">>] <= ledger[<<c, "intent">>]

LedgerOf(w) ==
  /\ writer[w].pc # "write" => Sane(ledger)
  /\ writer[w].pc = "write" => Replacing(w)
  /\ writer[w].pc \in {"idle", "begin", "loaded"} => ledger \in published

\* A ledger that stands while the epoch is even has been published.
EvenStands == ~Odd(epoch) => ledger \in published /\ Sane(ledger)

PublishedSane == \A l \in published : Sane(l)

\* What a reader copied since it looked at the epoch is the ledger as it is,
\* as long as the epoch has not moved on.
CopyOf(r) ==
  /\ reader[r].began <= epoch
  /\ reader[r].pc = "begin" => reader[r].attempt < Attempts
  /\ reader[r].pc \in {"copy", "verify", "accepted"} => ~Odd(reader[r].began)
  /\ reader[r].pc = "copy" /\ reader[r].began = epoch =>
       \A x \in Words \ reader[r].left : reader[r].copy[x] = ledger[x]
  /\ reader[r].pc \in {"verify", "accepted"} /\ reader[r].began = epoch => reader[r].copy = ledger
  /\ reader[r].pc = "accepted" => reader[r].copy \in published

LedgerInv ==
  /\ LedgerTypeOK
  /\ \A w \in Writers : EpochOf(w) /\ LedgerOf(w)
  /\ EvenStands /\ PublishedSane
  /\ \A r \in Readers : CopyOf(r)
  /\ StampIdentifies

-----------------------------------------------------------------------------
(* Types. *)

\* A publication names a consumer, and the words it replaces hold values.
LEMMA PublicationTypes ==
  \A p \in Publications : /\ p.consumer \in Consumers
                         /\ \A f \in DOMAIN p.words : p.words[f] \in Values
BY DEF Publications

LEMMA IdleType == Idle \in Publications
BY GovLedgerAssumption DEF Idle, Publications

LEMMA EmptyType == Empty \in Ledgers /\ Sane(Empty)
BY GovLedgerAssumption DEF Empty, Ledgers, Sane, Words, Fields

LEMMA WriterSet ==
  ASSUME NEW x \in WriterRec
  PROVE  /\ \A v \in {"idle", "begin", "lease", "write", "loaded"} : [x EXCEPT !.pc = v] \in WriterRec
         /\ \A v \in Nat : [x EXCEPT !.seen = v] \in WriterRec
         /\ \A v \in Publications : [x EXCEPT !.pub = v] \in WriterRec
         /\ \A v \in [Fields -> Values] : [x EXCEPT !.lease = v] \in WriterRec
         /\ \A v \in SUBSET Fields : [x EXCEPT !.left = v] \in WriterRec
BY DEF WriterRec

LEMMA ReaderSet ==
  ASSUME NEW x \in ReaderRec
  PROVE  /\ \A v \in {"ready", "begin", "copy", "verify", "accepted", "exhausted"} :
              [x EXCEPT !.pc = v] \in ReaderRec
         /\ \A v \in 0..MaxSnapshots : [x EXCEPT !.taken = v] \in ReaderRec
         /\ \A v \in 0..Attempts : [x EXCEPT !.attempt = v] \in ReaderRec
         /\ \A v \in Nat : [x EXCEPT !.began = v] \in ReaderRec
         /\ \A v \in Ledgers : [x EXCEPT !.copy = v] \in ReaderRec
         /\ \A v \in SUBSET Words : [x EXCEPT !.left = v] \in ReaderRec
BY DEF ReaderRec

LEMMA FieldTypes ==
  /\ \A x \in WriterRec : /\ x.pc \in {"idle", "begin", "lease", "write", "loaded"}
                          /\ x.seen \in Nat /\ x.pub \in Publications
                          /\ x.lease \in [Fields -> Values] /\ x.left \subseteq Fields
  /\ \A x \in ReaderRec : /\ x.taken \in 0..MaxSnapshots /\ x.attempt \in 0..Attempts
                          /\ x.began \in Nat /\ x.copy \in Ledgers /\ x.left \subseteq Words
BY DEF WriterRec, ReaderRec

\* The parity of an epoch.
LEMMA Parity ==
  \A n \in Nat : /\ ~Odd(2 * n) /\ (n > 0 => Odd(2 * n - 1) /\ ~Odd(2 * n - 2))
BY DEF Odd

LEMMA TickType == ASSUME faults \in Nat, NEW b \in BOOLEAN PROVE Tick(b) \in Nat
BY DEF Tick

-----------------------------------------------------------------------------
(* The writer's steps. *)

LEMMA InitInv == LedgerInit => LedgerInv
<1> SUFFICES ASSUME LedgerInit PROVE LedgerInv
  OBVIOUS
<1> USE GovLedgerAssumption
<1>1. [f \in Fields |-> 0] \in [Fields -> Values]
  OBVIOUS
<1>2. writer \in [Writers -> WriterRec]
  <2>1. writer = [w \in Writers |-> [pc |-> "idle", seen |-> 0, pub |-> Idle,
                                     lease |-> [f \in Fields |-> 0], left |-> {}]]
    BY DEF LedgerInit, Idle
  <2> QED BY <1>1, <2>1, IdleType DEF WriterRec
<1>3. reader \in [Readers -> ReaderRec]
  BY EmptyType DEF LedgerInit, ReaderRec
<1>4. LedgerTypeOK
  <2>1. epoch \in 0..(2 * MaxPublishes) /\ publishes \in 0..MaxPublishes /\ faults \in Nat
    BY DEF LedgerInit
  <2>2. ledger \in Ledgers /\ published \subseteq Ledgers
    BY EmptyType DEF LedgerInit
  <2> QED BY <1>2, <1>3, <2>1, <2>2 DEF LedgerTypeOK
<1>5. \A w \in Writers : EpochOf(w) /\ LedgerOf(w)
  BY EmptyType DEF LedgerInit, EpochOf, LedgerOf
<1>6. EvenStands /\ PublishedSane
  BY EmptyType DEF LedgerInit, EvenStands, PublishedSane
<1>7. \A r \in Readers : CopyOf(r)
  BY DEF LedgerInit, CopyOf
<1>8. StampIdentifies
  BY DEF LedgerInit, StampIdentifies, Accepted
<1> QED BY <1>4, <1>5, <1>6, <1>7, <1>8 DEF LedgerInv

LEMMA LoadBeginInv ==
  ASSUME OneWriter, LedgerInv, NEW w \in Writers, NEW p \in Publications, LoadBegin(w, p)
  PROVE  LedgerInv'
<1> USE GovLedgerAssumption
<1>1. /\ writer' \in [Writers -> WriterRec] /\ writer'[w].pc = "begin" /\ writer'[w].seen = epoch
  <2>1. writer[w] \in WriterRec /\ epoch \in Nat
    BY DEF LedgerInv, LedgerTypeOK
  <2>2. [[[writer[w] EXCEPT !.pc = "begin"] EXCEPT !.seen = epoch] EXCEPT !.pub = p] \in WriterRec
    BY <2>1, WriterSet
  <2> QED BY <2>1, <2>2 DEF LoadBegin, LedgerInv, LedgerTypeOK, WriterRec
<1>2. publishes' \in 0..MaxPublishes /\ publishes' = publishes + 1 /\ publishes \in Nat
  BY DEF LedgerInv, LedgerTypeOK, LoadBegin
<1>3. faults' \in Nat
  BY TickType DEF LedgerInv, LedgerTypeOK, LoadBegin, Odd
<1>4. LedgerTypeOK'
  BY <1>1, <1>2, <1>3 DEF LedgerInv, LedgerTypeOK, LoadBegin
<1>5. \A v \in Writers : v = w
  BY DEF OneWriter
<1>6. EpochOf(w)'
  BY <1>1, <1>2 DEF LedgerInv, EpochOf, LoadBegin, LedgerTypeOK
<1>7. LedgerOf(w)'
  BY <1>1 DEF LedgerInv, LedgerOf, LoadBegin, Sane
<1>8. (EvenStands /\ PublishedSane)'
  BY DEF LedgerInv, EvenStands, PublishedSane, LoadBegin, Sane, Odd
<1>9. (\A r \in Readers : CopyOf(r))'
  BY DEF LedgerInv, CopyOf, LoadBegin, Odd
<1>10. StampIdentifies'
  BY DEF LedgerInv, StampIdentifies, Accepted, LoadBegin
<1> QED BY <1>4, <1>5, <1>6, <1>7, <1>8, <1>9, <1>10 DEF LedgerInv

LEMMA StoreBeginInv ==
  ASSUME OneWriter, LedgerInv, NEW w \in Writers, StoreBegin(w)
  PROVE  LedgerInv'
<1> USE GovLedgerAssumption
<1>1. writer' \in [Writers -> WriterRec] /\ writer'[w].pc = "lease"
  <2>1. writer[w] \in WriterRec /\ [writer[w] EXCEPT !.pc = "lease"] \in WriterRec
    BY WriterSet DEF LedgerInv, LedgerTypeOK
  <2> QED BY <2>1 DEF LedgerInv, LedgerTypeOK, StoreBegin, WriterRec
<1>2. /\ publishes \in 0..MaxPublishes /\ publishes > 0 /\ epoch = 2 * publishes - 2
      /\ epoch' = 2 * publishes - 1
  BY DEF LedgerInv, LedgerTypeOK, StoreBegin, EpochOf
<1>3. epoch' \in 0..(2 * MaxPublishes) /\ Odd(epoch') /\ epoch' > epoch
  BY <1>2, Parity
<1>4. LedgerTypeOK'
  BY <1>1, <1>3 DEF LedgerInv, LedgerTypeOK, StoreBegin
<1>5. \A v \in Writers : v = w
  BY DEF OneWriter
<1>6. EpochOf(w)'
  BY <1>1, <1>2 DEF EpochOf, StoreBegin
<1>7. LedgerOf(w)'
  BY <1>1 DEF LedgerInv, LedgerOf, StoreBegin, Sane
<1>8. (EvenStands /\ PublishedSane)'
  BY <1>3 DEF LedgerInv, EvenStands, PublishedSane, StoreBegin, Sane, Odd
<1>9. (\A r \in Readers : CopyOf(r))'
  <2> SUFFICES ASSUME NEW r \in Readers PROVE CopyOf(r)'
    OBVIOUS
  <2>1. reader[r].began <= epoch /\ reader[r].began \in Nat /\ epoch \in Nat /\ epoch' \in Nat
    BY <1>3, FieldTypes DEF LedgerInv, LedgerTypeOK, CopyOf
  <2>2. reader[r].began # epoch' /\ reader[r].began <= epoch'
    BY <2>1, <1>3
  <2> QED BY <2>2 DEF LedgerInv, CopyOf, StoreBegin, Odd
<1>10. StampIdentifies'
  BY DEF LedgerInv, StampIdentifies, Accepted, StoreBegin
<1> QED BY <1>4, <1>5, <1>6, <1>7, <1>8, <1>9, <1>10 DEF LedgerInv


LEMMA ReadLeaseInv ==
  ASSUME OneWriter, LedgerInv, NEW w \in Writers, ReadLease(w)
  PROVE  LedgerInv'
<1> USE GovLedgerAssumption
<1> DEFINE p == writer[w].pub
           l == [f \in Fields |-> IF f \in DOMAIN p.words THEN p.words[f]
                                  ELSE ledger[<<p.consumer, f>>]]
           left == IF Refused(l) THEN {} ELSE Fields
<1>1. writer[w] \in WriterRec /\ p \in Publications /\ ledger \in [Words -> Values]
  BY FieldTypes DEF LedgerInv, LedgerTypeOK, Ledgers
<1>2. l \in [Fields -> Values] /\ left \subseteq Fields
  BY <1>1, PublicationTypes DEF Words
<1>3. /\ writer' \in [Writers -> WriterRec] /\ writer'[w].pc = "write" /\ writer'[w].lease = l
      /\ writer'[w].left = left
  <2>1. [[[writer[w] EXCEPT !.pc = "write"] EXCEPT !.lease = l] EXCEPT !.left = left] \in WriterRec
    BY <1>1, <1>2, WriterSet
  <2>2. writer' = [writer EXCEPT ![w] = [[[writer[w] EXCEPT !.pc = "write"] EXCEPT !.lease = l] EXCEPT !.left = left]]
    BY DEF ReadLease
  <2> HIDE DEF l, left
  <2> QED BY <2>1, <2>2, <1>1 DEF LedgerInv, LedgerTypeOK, WriterRec
<1>4. faults' \in Nat
  BY DEF LedgerInv, LedgerTypeOK, ReadLease, Tick
<1>5. LedgerTypeOK'
  BY <1>3, <1>4 DEF LedgerInv, LedgerTypeOK, ReadLease
<1>6. \A v \in Writers : v = w
  BY DEF OneWriter
<1>7. EpochOf(w)'
  BY <1>3 DEF LedgerInv, EpochOf, ReadLease
<1>8. LedgerOf(w)'
  <2>1. Sane(ledger)
    BY DEF LedgerInv, LedgerOf, ReadLease
  <2>2. ledger' = ledger
    BY DEF ReadLease
  <2>3. CASE Refused(l)
    BY <1>3, <2>1, <2>2, <2>3 DEF LedgerOf, Replacing, Sane
  <2>4. CASE ~Refused(l)
    <3> HIDE DEF l, left
    <3>1. l["resident"] <= l["intent"]
      <4>1. l["resident"] \in Nat /\ l["intent"] \in Nat
        BY <1>2 DEF Fields
      <4>2. ~(l["resident"] > l["intent"])
        BY <2>4 DEF Refused
      <4> QED BY <4>1, <4>2
    <3>2. writer'[w].lease["resident"] <= writer'[w].lease["intent"] /\ writer'[w].left = Fields
      BY <3>1, <1>3, <2>4 DEF left
    <3> QED BY <1>3, <3>2, <2>1, <2>2 DEF LedgerOf, Replacing, Sane
  <2> QED BY <2>3, <2>4
<1>9. (EvenStands /\ PublishedSane)'
  BY DEF LedgerInv, EvenStands, PublishedSane, ReadLease, Sane, Odd
<1>10. (\A r \in Readers : CopyOf(r))'
  BY DEF LedgerInv, CopyOf, ReadLease, Odd
<1>11. StampIdentifies'
  BY DEF LedgerInv, StampIdentifies, Accepted, ReadLease
<1> QED BY <1>5, <1>6, <1>7, <1>8, <1>9, <1>10, <1>11 DEF LedgerInv

LEMMA WriteWordInv ==
  ASSUME OneWriter, LedgerInv, NEW w \in Writers, NEW f \in Fields, WriteWord(w, f)
  PROVE  LedgerInv'
<1> USE GovLedgerAssumption
<1> DEFINE c == writer[w].pub.consumer
<1>1. /\ writer[w] \in WriterRec /\ c \in Consumers /\ writer[w].lease \in [Fields -> Values]
      /\ writer[w].left \subseteq Fields /\ ledger \in [Words -> Values]
  BY FieldTypes, PublicationTypes DEF LedgerInv, LedgerTypeOK, Ledgers
<1>2. /\ writer' \in [Writers -> WriterRec] /\ writer'[w].pc = "write"
      /\ writer'[w].lease = writer[w].lease /\ writer'[w].left = writer[w].left \ {f}
      /\ writer'[w].pub = writer[w].pub
  <2>1. [writer[w] EXCEPT !.left = writer[w].left \ {f}] \in WriterRec
    BY <1>1, WriterSet
  <2> QED BY <2>1, <1>1 DEF LedgerInv, LedgerTypeOK, WriteWord, WriterRec
<1>3. ledger' = [ledger EXCEPT ![<<c, f>>] = writer[w].lease[f]] /\ <<c, f>> \in Words
  BY <1>1 DEF WriteWord, Words
<1>4. ledger' \in Ledgers
  BY <1>1, <1>3 DEF Ledgers
<1>5. LedgerTypeOK'
  BY <1>2, <1>4 DEF LedgerInv, LedgerTypeOK, WriteWord
<1>6. \A v \in Writers : v = w
  BY DEF OneWriter
<1>7. EpochOf(w)' /\ Odd(epoch)
  BY <1>2, Parity DEF LedgerInv, EpochOf, WriteWord, LedgerTypeOK
<1>8. LedgerOf(w)'
  <2>1. /\ writer[w].lease["resident"] <= writer[w].lease["intent"]
        /\ \A g \in Fields \ writer[w].left : ledger[<<c, g>>] = writer[w].lease[g]
        /\ \A d \in Consumers \ {c} : ledger[<<d, "resident">>] <= ledger[<<d, "intent">>]
    BY DEF LedgerInv, LedgerOf, Replacing, WriteWord
  <2>2. \A g \in Fields \ (writer[w].left \ {f}) : ledger'[<<c, g>>] = writer[w].lease[g]
    BY <1>1, <1>3, <2>1 DEF Words
  <2>3. \A d \in Consumers \ {c}, g \in Fields : ledger'[<<d, g>>] = ledger[<<d, g>>]
    BY <1>1, <1>3 DEF Words
  <2>4. \A d \in Consumers \ {c} : ledger'[<<d, "resident">>] <= ledger'[<<d, "intent">>]
    BY <2>1, <2>3 DEF Fields
  <2>5. Replacing(w)'
    BY <2>1, <2>2, <2>4, <1>2 DEF Replacing
  <2> QED BY <1>2, <2>5 DEF LedgerOf
<1>9. (EvenStands /\ PublishedSane)'
  BY <1>7 DEF LedgerInv, EvenStands, PublishedSane, WriteWord, Sane, Odd
<1>10. (\A r \in Readers : CopyOf(r))'
  <2> SUFFICES ASSUME NEW r \in Readers PROVE CopyOf(r)'
    OBVIOUS
  <2>1. CASE reader[r].pc \in {"copy", "verify", "accepted"}
    <3>1. reader[r].began # epoch
      BY <1>7, <2>1 DEF LedgerInv, CopyOf
    <3> QED BY <3>1, <2>1 DEF LedgerInv, CopyOf, WriteWord, Odd
  <2>2. CASE reader[r].pc \notin {"copy", "verify", "accepted"}
    BY <2>2 DEF LedgerInv, CopyOf, WriteWord, Odd
  <2> QED BY <2>1, <2>2
<1>11. StampIdentifies'
  BY DEF LedgerInv, StampIdentifies, Accepted, WriteWord
<1> QED BY <1>5, <1>6, <1>7, <1>8, <1>9, <1>10, <1>11 DEF LedgerInv


LEMMA LoadEndInv ==
  ASSUME OneWriter, LedgerInv, NEW w \in Writers, LoadEnd(w)
  PROVE  LedgerInv'
<1> USE GovLedgerAssumption
<1>1. /\ writer' \in [Writers -> WriterRec] /\ writer'[w].pc = "loaded" /\ writer'[w].seen = epoch
  <2>1. writer[w] \in WriterRec /\ epoch \in Nat
    BY DEF LedgerInv, LedgerTypeOK
  <2>2. [[writer[w] EXCEPT !.pc = "loaded"] EXCEPT !.seen = epoch] \in WriterRec
    BY <2>1, WriterSet
  <2> QED BY <2>1, <2>2 DEF LoadEnd, LedgerInv, LedgerTypeOK, WriterRec
<1>2. \A v \in Writers : v = w
  BY DEF OneWriter
<1>3. published' = published \cup {ledger}
  BY <1>2 DEF LoadEnd
<1>4. Sane(ledger)
  BY <1>3 DEF LoadEnd, LedgerInv, LedgerOf, Replacing, Sane, Fields
<1>5. LedgerTypeOK'
  <2>1. faults' \in Nat
    BY DEF LedgerInv, LedgerTypeOK, LoadEnd, Tick
  <2>2. published' \subseteq Ledgers
    BY <1>3 DEF LedgerInv, LedgerTypeOK
  <2> QED BY <1>1, <2>1, <2>2 DEF LedgerInv, LedgerTypeOK, LoadEnd
<1>6. EpochOf(w)'
  BY <1>1 DEF LedgerInv, EpochOf, LoadEnd
<1>7. LedgerOf(w)'
  BY <1>1, <1>3, <1>4 DEF LedgerOf, LoadEnd, Sane
<1>8. (EvenStands /\ PublishedSane)'
  <2>1. \A l \in published' : Sane(l)
    BY <1>3, <1>4 DEF LedgerInv, PublishedSane
  <2> QED BY <1>3, <1>4, <2>1 DEF EvenStands, PublishedSane, LoadEnd, Sane
<1>9. (\A r \in Readers : CopyOf(r))'
  BY <1>3 DEF LedgerInv, CopyOf, LoadEnd, Odd
<1>10. StampIdentifies'
  BY DEF LedgerInv, StampIdentifies, Accepted, LoadEnd
<1> QED BY <1>2, <1>5, <1>6, <1>7, <1>8, <1>9, <1>10 DEF LedgerInv


LEMMA StoreEndInv ==
  ASSUME OneWriter, LedgerInv, NEW w \in Writers, StoreEnd(w)
  PROVE  LedgerInv'
<1> USE GovLedgerAssumption
<1>1. writer' \in [Writers -> WriterRec] /\ writer'[w].pc = "idle"
  <2> DEFINE zero == [f \in Fields |-> 0]
  <2>1. writer[w] \in WriterRec /\ zero \in [Fields -> Values]
    BY DEF LedgerInv, LedgerTypeOK
  <2>2. [[[[writer[w] EXCEPT !.pc = "idle"] EXCEPT !.pub = Idle] EXCEPT !.seen = 0] EXCEPT !.lease = zero]
          \in WriterRec
    <3> HIDE DEF zero
    <3> QED BY <2>1, WriterSet, IdleType
  <2>3. writer' = [writer EXCEPT ![w] =
          [[[[writer[w] EXCEPT !.pc = "idle"] EXCEPT !.pub = Idle] EXCEPT !.seen = 0] EXCEPT !.lease = zero]]
    BY DEF StoreEnd
  <2> HIDE DEF zero
  <2> QED BY <2>1, <2>2, <2>3 DEF LedgerInv, LedgerTypeOK, WriterRec
<1>2. /\ publishes \in 0..MaxPublishes /\ publishes > 0 /\ epoch = 2 * publishes - 1
      /\ epoch' = 2 * publishes
  BY DEF LedgerInv, LedgerTypeOK, StoreEnd, EpochOf
<1>3. epoch' \in 0..(2 * MaxPublishes) /\ epoch' > epoch
  BY <1>2
<1>4. LedgerTypeOK'
  BY <1>1, <1>3 DEF LedgerInv, LedgerTypeOK, StoreEnd
<1>5. \A v \in Writers : v = w
  BY DEF OneWriter
<1>6. EpochOf(w)'
  BY <1>1, <1>2 DEF EpochOf, StoreEnd
<1>7. ledger \in published /\ Sane(ledger)
  BY DEF LedgerInv, LedgerOf, StoreEnd
<1>8. LedgerOf(w)'
  BY <1>1, <1>7 DEF LedgerOf, StoreEnd, Sane
<1>9. (EvenStands /\ PublishedSane)'
  BY <1>7 DEF LedgerInv, EvenStands, PublishedSane, StoreEnd, Sane, Odd
<1>10. (\A r \in Readers : CopyOf(r))'
  <2> SUFFICES ASSUME NEW r \in Readers PROVE CopyOf(r)'
    OBVIOUS
  <2>1. reader[r].began <= epoch /\ reader[r].began \in Nat /\ epoch \in Nat /\ epoch' \in Nat
    BY <1>3, FieldTypes DEF LedgerInv, LedgerTypeOK, CopyOf
  <2>2. reader[r].began # epoch' /\ reader[r].began <= epoch'
    BY <2>1, <1>3
  <2> QED BY <2>2 DEF LedgerInv, CopyOf, StoreEnd, Odd
<1>11. StampIdentifies'
  BY DEF LedgerInv, StampIdentifies, Accepted, StoreEnd
<1> QED BY <1>4, <1>5, <1>6, <1>8, <1>9, <1>10, <1>11 DEF LedgerInv

-----------------------------------------------------------------------------
(* The readers' steps: only reader and faults change. *)

\* A step of one reader keeps the invariant if that reader's record is typed
\* and its copy is what CopyOf and StampIdentifies ask for.
LEMMA ReaderStep ==
  ASSUME LedgerInv, NEW r \in Readers, NEW x \in ReaderRec,
         reader' = [reader EXCEPT ![r] = x], faults' \in Nat,
         UNCHANGED <<epoch, ledger, writer, published, publishes>>,
         x.began <= epoch,
         x.pc = "begin" => x.attempt < Attempts,
         x.pc \in {"copy", "verify", "accepted"} => ~Odd(x.began),
         x.pc = "copy" /\ x.began = epoch => \A y \in Words \ x.left : x.copy[y] = ledger[y],
         x.pc \in {"verify", "accepted"} /\ x.began = epoch => x.copy = ledger,
         x.pc = "accepted" => x.began = epoch
  PROVE  LedgerInv'
<1>1. reader' \in [Readers -> ReaderRec] /\ reader'[r] = x
  BY DEF LedgerInv, LedgerTypeOK
<1>2. LedgerTypeOK'
  BY <1>1 DEF LedgerInv, LedgerTypeOK
<1>3. (\A w \in Writers : EpochOf(w) /\ LedgerOf(w))'
  BY DEF LedgerInv, EpochOf, LedgerOf, Replacing, Sane
<1>4. (EvenStands /\ PublishedSane)'
  BY DEF LedgerInv, EvenStands, PublishedSane, Sane, Odd
<1>5. x.pc = "accepted" => x.copy = ledger /\ x.copy \in published
  BY DEF LedgerInv, EvenStands
<1>6. (\A q \in Readers : CopyOf(q))'
  <2> SUFFICES ASSUME NEW q \in Readers PROVE CopyOf(q)'
    OBVIOUS
  <2>1. CASE q = r
    BY <1>1, <1>5, <2>1 DEF CopyOf, Odd
  <2>2. CASE q # r
    <3>1. reader'[q] = reader[q]
      BY <2>2 DEF LedgerInv, LedgerTypeOK
    <3> QED BY <3>1 DEF LedgerInv, CopyOf, Odd
  <2> QED BY <2>1, <2>2
<1>7. StampIdentifies'
  <2> SUFFICES ASSUME NEW p \in Readers, NEW q \in Readers,
                      reader'[p].pc = "accepted", reader'[q].pc = "accepted",
                      reader'[p].began = reader'[q].began
               PROVE  reader'[p].copy = reader'[q].copy
    BY DEF StampIdentifies, Accepted
  <2>1. \A z \in Readers : z # r => reader'[z] = reader[z]
    BY DEF LedgerInv, LedgerTypeOK
  <2>2. \A z \in Readers : reader[z].pc = "accepted" /\ reader[z].began = epoch => reader[z].copy = ledger
    BY DEF LedgerInv, CopyOf
  <2>3. CASE p = r \/ q = r
    BY <1>1, <1>5, <2>1, <2>2, <2>3
  <2>4. CASE p # r /\ q # r
    BY <2>1, <2>4 DEF LedgerInv, StampIdentifies, Accepted
  <2> QED BY <2>3, <2>4
<1> QED BY <1>2, <1>3, <1>4, <1>6, <1>7 DEF LedgerInv

LEMMA RetryInv ==
  ASSUME LedgerInv, NEW r \in Readers, NEW rec \in ReaderRec, rec.began <= epoch, Retry(r, rec),
         UNCHANGED <<epoch, ledger, writer, published, publishes>>
  PROVE  LedgerInv'
<1> DEFINE x == [rec EXCEPT !.pc = IF rec.attempt < Attempts THEN "begin" ELSE "exhausted"]
<1>1. x \in ReaderRec
  BY ReaderSet
<1>2. reader' = [reader EXCEPT ![r] = x] /\ faults' \in Nat
  BY DEF Retry, LedgerInv, LedgerTypeOK, Tick
<1>3. /\ x.pc \in {"begin", "exhausted"} /\ x.began = rec.began /\ x.attempt = rec.attempt
      /\ x.pc = "begin" => x.attempt < Attempts
  BY DEF ReaderRec
<1> HIDE DEF x
<1> QED BY <1>1, <1>2, <1>3, ReaderStep

LEMMA StartSnapshotInv ==
  ASSUME LedgerInv, NEW r \in Readers, StartSnapshot(r) PROVE LedgerInv'
<1> USE GovLedgerAssumption
<1> DEFINE y == [reader[r] EXCEPT !.pc = "begin", !.taken = reader[r].taken + 1]
           z == [y EXCEPT !.attempt = 0, !.began = 0]
           x == [z EXCEPT !.copy = Empty]
<1>1. reader[r] \in ReaderRec /\ reader[r].taken + 1 \in 0..MaxSnapshots
  BY FieldTypes DEF LedgerInv, LedgerTypeOK, StartSnapshot
<1>2. y \in ReaderRec
  BY <1>1, ReaderSet
<1>3. z \in ReaderRec
  <2>1. 0 \in 0..Attempts
    OBVIOUS
  <2> HIDE DEF y
  <2> QED BY <1>2, <2>1, ReaderSet
<1>4. x \in ReaderRec
  <2> HIDE DEF z
  <2> QED BY <1>3, EmptyType, ReaderSet
<1>7. reader' = [reader EXCEPT ![r] = x] /\ UNCHANGED <<epoch, ledger, faults, writer, published, publishes>>
  BY DEF StartSnapshot
<1>5. x.pc = "begin" /\ x.began = 0 /\ x.attempt = 0
  BY <1>1 DEF ReaderRec
<1>6. epoch \in Nat /\ 0 <= epoch /\ faults \in Nat
  BY DEF LedgerInv, LedgerTypeOK
<1> HIDE DEF x
<1>8. x.began <= epoch /\ x.attempt < Attempts /\ faults' \in Nat
  BY <1>5, <1>6, <1>7
<1>9. x.pc \notin {"copy", "verify", "accepted"}
  BY <1>5
<1>10. UNCHANGED <<epoch, ledger, writer, published, publishes>>
  BY <1>7
<1> QED BY <1>4, <1>7, <1>8, <1>9, <1>10, ReaderStep

LEMMA ReadBeginInv ==
  ASSUME LedgerInv, NEW r \in Readers, ReadBegin(r) PROVE LedgerInv'
<1> USE GovLedgerAssumption
<1> DEFINE rec == [reader[r] EXCEPT !.began = epoch, !.attempt = @ + 1]
           x == [rec EXCEPT !.pc = "copy", !.left = Words]
<1>1. /\ reader[r] \in ReaderRec /\ reader[r].attempt + 1 \in 0..Attempts /\ epoch \in Nat
      /\ faults \in Nat
  BY FieldTypes DEF LedgerInv, LedgerTypeOK, ReadBegin, CopyOf
<1>2. rec \in ReaderRec
  BY <1>1, ReaderSet
<1>3. rec.began = epoch
  BY <1>1 DEF ReaderRec
<1>4. CASE Odd(epoch)
  <2>1. Retry(r, rec)
    BY <1>4 DEF ReadBegin
  <2> HIDE DEF rec
  <2> QED BY <2>1, <1>1, <1>2, <1>3, RetryInv DEF ReadBegin
<1>5. CASE ~Odd(epoch)
  <2>1. reader' = [reader EXCEPT ![r] = x] /\ UNCHANGED <<epoch, ledger, faults, writer, published, publishes>>
    BY <1>5 DEF ReadBegin
  <2>2. x \in ReaderRec
    <3> HIDE DEF rec
    <3> QED BY <1>2 DEF ReaderRec
  <2>3. x.pc = "copy" /\ x.began = epoch /\ x.left = Words
    BY <1>1 DEF ReaderRec
  <2> HIDE DEF x
  <2>4. x.began <= epoch /\ ~Odd(x.began) /\ faults' \in Nat
    BY <1>1, <1>5, <2>1, <2>3
  <2>5. x.pc \notin {"begin", "verify", "accepted"} /\ \A y \in Words \ x.left : x.copy[y] = ledger[y]
    BY <2>3
  <2>6. UNCHANGED <<epoch, ledger, writer, published, publishes>>
    BY <2>1
  <2> QED BY <2>1, <2>2, <2>4, <2>5, <2>6, ReaderStep
<1> QED BY <1>4, <1>5

LEMMA CopyWordInv ==
  ASSUME LedgerInv, NEW r \in Readers, NEW w \in Words, CopyWord(r, w) PROVE LedgerInv'
<1> DEFINE copy == [reader[r].copy EXCEPT ![w] = ledger[w]]
           pc == IF reader[r].left = {w} THEN "verify" ELSE "copy"
           x == [reader[r] EXCEPT !.copy[w] = ledger[w], !.left = reader[r].left \ {w}, !.pc = pc]
<1>1. /\ reader[r] \in ReaderRec /\ reader[r].copy \in [Words -> Values]
      /\ ledger \in [Words -> Values] /\ reader[r].left \subseteq Words /\ faults \in Nat
  BY FieldTypes DEF LedgerInv, LedgerTypeOK, Ledgers
<1>2. copy \in Ledgers
  BY <1>1 DEF Ledgers
<1>3. x \in ReaderRec
  BY <1>1, <1>2 DEF ReaderRec
<1>4. reader' = [reader EXCEPT ![r] = x] /\ UNCHANGED <<epoch, ledger, faults, writer, published, publishes>>
  BY DEF CopyWord
<1>5. x.pc = pc /\ x.began = reader[r].began /\ x.copy = copy /\ x.left = reader[r].left \ {w}
  BY <1>1 DEF ReaderRec
<1>6. /\ ~Odd(reader[r].began) /\ reader[r].began <= epoch
      /\ reader[r].began = epoch => \A y \in Words \ reader[r].left : reader[r].copy[y] = ledger[y]
  BY DEF LedgerInv, CopyOf, CopyWord
<1>7. reader[r].began = epoch => \A y \in Words \ (reader[r].left \ {w}) : copy[y] = ledger[y]
  BY <1>1, <1>6
<1>8. reader[r].began = epoch /\ reader[r].left = {w} => copy = ledger
  BY <1>1, <1>7
<1> HIDE DEF x, copy
<1> QED BY <1>3, <1>4, <1>5, <1>6, <1>7, <1>8, <1>1, ReaderStep

LEMMA ReadVerifyInv ==
  ASSUME LedgerInv, NEW r \in Readers, ReadVerify(r) PROVE LedgerInv'
<1>1. reader[r] \in ReaderRec /\ faults \in Nat /\ reader[r].began <= epoch
  BY DEF LedgerInv, LedgerTypeOK, CopyOf
<1>2. CASE Verified(r)
  <2> DEFINE x == [reader[r] EXCEPT !.pc = "accepted"]
  <2>1. x \in ReaderRec
    BY <1>1, ReaderSet
  <2>2. reader' = [reader EXCEPT ![r] = x] /\ faults' = faults
    BY <1>2 DEF ReadVerify
  <2>3. x.pc = "accepted" /\ x.began = reader[r].began /\ x.copy = reader[r].copy
    BY <1>1 DEF ReaderRec
  <2>4. reader[r].began = epoch /\ ~Odd(reader[r].began) /\ reader[r].copy = ledger
    BY <1>2 DEF LedgerInv, CopyOf, ReadVerify, Verified
  <2> HIDE DEF x
  <2> QED BY <1>1, <2>1, <2>2, <2>3, <2>4, ReaderStep DEF ReadVerify
<1>3. CASE ~Verified(r)
  BY <1>1, <1>3, RetryInv DEF ReadVerify
<1> QED BY <1>2, <1>3

-----------------------------------------------------------------------------
(* Theorems. *)

\* LedgerInv is inductive: it holds initially and every step of the writer
\* and of a reader keeps it.
THEOREM LedgerInvariant == ASSUME OneWriter PROVE LedgerSpec => []LedgerInv
<1>1. LedgerInv /\ [LedgerNext]_ledgerVars => LedgerInv'
  <2> SUFFICES ASSUME LedgerInv, [LedgerNext]_ledgerVars PROVE LedgerInv'
    OBVIOUS
  <2>1. CASE UNCHANGED ledgerVars
    BY <2>1 DEF ledgerVars, LedgerInv, LedgerTypeOK, EpochOf, LedgerOf, Replacing, Sane, EvenStands, Odd,
                PublishedSane, CopyOf, StampIdentifies, Accepted
  <2>2. ASSUME NEW w \in Writers, Writer(w) PROVE LedgerInv'
    BY <2>2, LoadBeginInv, StoreBeginInv, ReadLeaseInv, WriteWordInv, LoadEndInv, StoreEndInv DEF Writer
  <2>3. ASSUME NEW r \in Readers, Reader(r) PROVE LedgerInv'
    BY <2>3, StartSnapshotInv, ReadBeginInv, CopyWordInv, ReadVerifyInv DEF Reader
  <2> QED BY <2>1, <2>2, <2>3 DEF LedgerNext
<1> QED BY <1>1, InitInv, PTL DEF LedgerSpec

\* Whatever a reader accepts is a ledger that stood between two publications
\* and that the evaluator does not fail on, whatever the order in which the
\* words are stored and copied (ds4_gov_snapshot).
THEOREM SnapshotCoherentHolds == ASSUME OneWriter PROVE LedgerSpec => []SnapshotCoherent
<1>1. LedgerInv => SnapshotCoherent
  BY DEF LedgerInv, SnapshotCoherent, Coherent, NeverImpossible, Accepted, CopyOf, PublishedSane, Sane
<1> QED BY <1>1, LedgerInvariant, PTL

\* Two accepted snapshots stamped with the same epoch are the same ledger,
\* however far apart they were taken (ds4_gov_snapshot's epoch).
THEOREM StampIdentifiesHolds == ASSUME OneWriter PROVE LedgerSpec => []StampIdentifies
<1>1. LedgerInv => StampIdentifies
  BY DEF LedgerInv
<1> QED BY <1>1, LedgerInvariant, PTL


-----------------------------------------------------------------------------
(* Induction. *)

\* A nonempty set of naturals has a least element.
LEMMA Least == ASSUME NEW T, T \subseteq Nat, T # {} PROVE \E x \in T : \A y \in T : x <= y
<1> DEFINE R == OpToRel(<, Nat)
<1>1. IsWellFoundedOn(R, Nat)
  BY NatLessThanWellFounded
<1>2. \A x, y \in Nat : x < y => <<x, y>> \in R
  BY DEF OpToRel
<1> HIDE DEF R
<1>3. PICK x \in T : \A y \in T : ~(<<y, x>> \in R)
  BY <1>1, WFMin
<1>4. \A y \in T : ~(y < x)
  BY <1>2, <1>3
<1>5. \A y \in T : x <= y
  BY <1>4
<1> QED BY <1>5

\* A set with 0 in it that is closed under successor up to n has all of 0..n.
LEMMA Induct ==
  ASSUME NEW N \in Nat, NEW T, 0 \in T, \A i \in 1..N : i - 1 \in T => i \in T
  PROVE  \A i \in 0..N : i \in T
<1> DEFINE B == {i \in 0..N : i \notin T}
<1>1. SUFFICES ASSUME B # {} PROVE FALSE
  OBVIOUS
<1>2. PICK x \in B : \A y \in B : x <= y
  <2>1. B \subseteq Nat
    OBVIOUS
  <2> HIDE DEF B
  <2> QED BY <1>1, <2>1, Least
<1>3. x # 0 /\ x \in 0..N /\ x \notin T
  BY <1>2
<1>4. x \in 1..N /\ x - 1 \in 0..N /\ x - 1 < x
  BY <1>3
<1>5. x - 1 \in T
  BY <1>2, <1>4
<1> QED BY <1>3, <1>4, <1>5

-----------------------------------------------------------------------------
(* Sums over the banks. *)

\* s holds the partial sums of h.
Sums(s, h) ==
  s \in [0..NBanks -> Nat] /\ s[0] = 0 /\ \A i \in Banks : s[i] = s[i-1] + h[i]

\* The terms of SumOver.
Terms(f, S) == [i \in Banks |-> IF i \in S THEN f[i] ELSE 0]

LEMMA BanksNat == NBanks \in Nat /\ \A i \in Banks : i \in 0..NBanks /\ i - 1 \in 0..NBanks /\ i # 0
BY MemGovAssumption DEF Banks

\* There are partial sums of every h: those up to i - 1 extend to i.
LEMMA SumsExist == ASSUME NEW h \in [Banks -> Nat] PROVE \E s : Sums(s, h)
<1> DEFINE P(n, s) == s \in [0..n -> Nat] /\ s[0] = 0 /\ \A i \in 1..n : s[i] = s[i-1] + h[i]
           T == {n \in 0..NBanks : \E s : P(n, s)}
<1>0. NBanks \in Nat
  BY BanksNat
<1>1. 0 \in T
  <2> DEFINE z == [i \in 0..0 |-> 0]
  <2>1. z \in [0..0 -> Nat] /\ z[0] = 0
    OBVIOUS
  <2>2. 1..0 = {}
    OBVIOUS
  <2>3. P(0, z)
    BY <2>1, <2>2
  <2> HIDE DEF P, z
  <2> QED BY <1>0, <2>3
<1>2. ASSUME NEW n \in 1..NBanks, n - 1 \in T PROVE n \in T
  <2>1. PICK s : P(n - 1, s)
    BY <1>2
  <2> DEFINE t == [i \in 0..n |-> IF i = n THEN s[n-1] + h[n] ELSE s[i]]
  <2>2. n \in Nat /\ n > 0 /\ n - 1 \in 0..(n-1) /\ h[n] \in Nat /\ s[n-1] \in Nat
    BY <1>0, <2>1 DEF Banks
  <2>3. t \in [0..n -> Nat] /\ t[0] = 0
    BY <2>1, <2>2
  <2>4. ASSUME NEW i \in 1..n PROVE t[i] = t[i-1] + h[i]
    <3>1. i \in 0..n /\ i - 1 \in 0..n /\ i - 1 # n
      BY <2>2
    <3>2. CASE i = n
      BY <3>1, <3>2
    <3>3. CASE i # n
      <4>1. i \in 1..(n-1)
        BY <3>3, <2>2
      <4> QED BY <4>1, <3>1, <3>3, <2>1
    <3> QED BY <3>2, <3>3
  <2>5. P(n, t)
    BY <2>3, <2>4
  <2>6. n \in 0..NBanks
    BY <1>0
  <2> HIDE DEF t, P
  <2> QED BY <2>5, <2>6
<1> HIDE DEF P
<1>3. NBanks \in T
  <2> HIDE DEF T
  <2>1. \A i \in 1..NBanks : i - 1 \in T => i \in T
    BY <1>2
  <2>2. \A i \in 0..NBanks : i \in T
    BY <1>0, <1>1, <2>1, Induct
  <2> QED BY <1>0, <2>2
<1>4. PICK s : P(NBanks, s)
  BY <1>3
<1> QED BY <1>4 DEF P, Sums, Banks

\* SumOver is the last of the partial sums of its terms.
LEMMA SumOverIs ==
  ASSUME NEW f \in [Banks -> Nat], NEW S PROVE \E s : Sums(s, Terms(f, S)) /\ SumOver(f, S) = s[NBanks]
<1> DEFINE F(s) == [i \in 0..NBanks |-> IF i = 0 THEN 0 ELSE s[i-1] + (IF i \in S THEN f[i] ELSE 0)]
           c == CHOOSE s : s = F(s)
           h == Terms(f, S)
<1>1. h \in [Banks -> Nat] /\ \A i \in Banks : h[i] = IF i \in S THEN f[i] ELSE 0
  BY DEF Terms
<1>2. \A i \in 0..NBanks : i # 0 => i \in Banks
  BY BanksNat DEF Banks
<1> HIDE DEF h
<1>3. \E s : s = F(s)
  <2>1. PICK s : Sums(s, h)
    BY <1>1, SumsExist
  <2>2. s \in [0..NBanks -> Nat] /\ s[0] = 0 /\ \A i \in Banks : s[i] = s[i-1] + (IF i \in S THEN f[i] ELSE 0)
    BY <1>1, <2>1 DEF Sums
  <2>3. \A i \in 0..NBanks : s[i] = IF i = 0 THEN 0 ELSE s[i-1] + (IF i \in S THEN f[i] ELSE 0)
    BY <1>2, <2>2
  <2>4. s = F(s)
    BY <2>2, <2>3
  <2> QED BY <2>4
<1>4. c = F(c)
  BY <1>3
<1>5. SumOver(f, S) = c[NBanks]
  BY DEF SumOver
<1> HIDE DEF c
<1>6. c = [i \in 0..NBanks |-> c[i]] /\ c[0] = 0 /\ \A i \in Banks : c[i] = c[i-1] + h[i]
  <2>1. c = [i \in 0..NBanks |-> IF i = 0 THEN 0 ELSE c[i-1] + (IF i \in S THEN f[i] ELSE 0)]
    BY <1>4
  <2>2. \A i \in 0..NBanks : c[i] = IF i = 0 THEN 0 ELSE c[i-1] + (IF i \in S THEN f[i] ELSE 0)
    BY <2>1, Zenon
  <2>3. c = [i \in 0..NBanks |-> c[i]]
    BY <2>1, <2>2, Zenon
  <2>4. c[0] = 0
    <3>1. 0 \in 0..NBanks
      BY BanksNat
    <3> QED BY <2>2, <3>1, Zenon
  <2>5. ASSUME NEW i \in Banks PROVE c[i] = c[i-1] + h[i]
    BY <1>1, <2>2, <2>5, BanksNat
  <2> QED BY <2>3, <2>4, <2>5
<1> HIDE DEF F
<1>7. \A i \in 0..NBanks : c[i] \in Nat
  <2> DEFINE T == {i \in 0..NBanks : c[i] \in Nat}
  <2>1. 0 \in T
    <3>1. 0 \in 0..NBanks /\ c[0] = 0
      <4>1. 0 \in 0..NBanks
        BY BanksNat
      <4> QED BY <4>1, <1>6, Zenon
    <3>2. c[0] \in Nat
      BY <3>1
    <3> QED BY <3>1, <3>2
  <2>2. ASSUME NEW i \in 1..NBanks, i - 1 \in T PROVE i \in T
    <3>1. i \in Banks
      BY DEF Banks
    <3>2. c[i-1] \in Nat /\ h[i] \in Nat
      <4>1. c[i-1] \in Nat
        BY <2>2, Zenon
      <4>2. h[i] \in Nat
        BY <1>1, <3>1, Zenon
      <4> QED BY <4>1, <4>2
    <3>3. c[i] = c[i-1] + h[i]
      BY <1>6, <3>1
    <3>4. c[i] \in Nat
      BY <3>2, <3>3
    <3>5. i \in 0..NBanks
      BY <3>1, BanksNat
    <3> QED BY <3>4, <3>5
  <2> HIDE DEF T
  <2>3. \A i \in 0..NBanks : i \in T
    BY <2>1, <2>2, BanksNat, Induct
  <2> QED BY <2>3 DEF T
<1>8. Sums(c, h)
  BY <1>6, <1>7 DEF Sums
<1> QED BY <1>5, <1>8 DEF h

\* Facts about two families of partial sums, by induction on the bank.
LEMMA SumsMono ==
  ASSUME NEW g \in [Banks -> Nat], NEW h \in [Banks -> Nat], \A i \in Banks : g[i] <= h[i],
         NEW s, NEW t, Sums(s, g), Sums(t, h)
  PROVE  s[NBanks] <= t[NBanks]
<1> DEFINE T == {i \in 0..NBanks : s[i] <= t[i]}
<1>1. /\ s \in [0..NBanks -> Nat] /\ s[0] = 0 /\ \A i \in Banks : s[i] = s[i-1] + g[i]
      /\ t \in [0..NBanks -> Nat] /\ t[0] = 0 /\ \A i \in Banks : t[i] = t[i-1] + h[i]
  BY DEF Sums
<1>2. NBanks \in Nat /\ 0 \in 0..NBanks /\ NBanks \in 0..NBanks
  BY BanksNat
<1>3. 0 \in T
  BY <1>1, <1>2
<1>4. ASSUME NEW i \in 1..NBanks, i - 1 \in T PROVE i \in T
  <2>1. i \in Banks /\ i \in 0..NBanks /\ i - 1 \in 0..NBanks
    BY BanksNat DEF Banks
  <2>2. s[i-1] <= t[i-1]
    BY <1>4, Zenon
  <2>3. s[i-1] \in Nat /\ t[i-1] \in Nat /\ g[i] \in Nat /\ h[i] \in Nat /\ g[i] <= h[i]
    BY <1>1, <2>1
  <2>4. s[i] = s[i-1] + g[i] /\ t[i] = t[i-1] + h[i]
    BY <1>1, <2>1
  <2>5. s[i] <= t[i]
    BY <2>2, <2>3, <2>4
  <2> QED BY <2>1, <2>5
<1> HIDE DEF T
<1>5. \A i \in 0..NBanks : i \in T
  BY <1>2, <1>3, <1>4, Induct
<1> QED BY <1>2, <1>5 DEF T

\* Terms that differ at one bank only.
LEMMA SumsUpdate ==
  ASSUME NEW g \in [Banks -> Nat], NEW h \in [Banks -> Nat], NEW b \in Banks,
         \A i \in Banks : i # b => g[i] = h[i],
         NEW s, NEW t, Sums(s, g), Sums(t, h)
  PROVE  s[NBanks] + h[b] = t[NBanks] + g[b]
<1> DEFINE T == {i \in 0..NBanks : IF i < b THEN s[i] = t[i] ELSE s[i] + h[b] = t[i] + g[b]}
<1>1. /\ s \in [0..NBanks -> Nat] /\ s[0] = 0 /\ \A i \in Banks : s[i] = s[i-1] + g[i]
      /\ t \in [0..NBanks -> Nat] /\ t[0] = 0 /\ \A i \in Banks : t[i] = t[i-1] + h[i]
  BY DEF Sums
<1>2. /\ NBanks \in Nat /\ 0 \in 0..NBanks /\ NBanks \in 0..NBanks
      /\ b \in Nat /\ 0 < b /\ ~(NBanks < b) /\ g[b] \in Nat /\ h[b] \in Nat
  BY BanksNat DEF Banks
<1>3. 0 \in T
  BY <1>1, <1>2
<1>4. ASSUME NEW i \in 1..NBanks, i - 1 \in T PROVE i \in T
  <2>1. i \in Banks /\ i \in 0..NBanks /\ i - 1 \in 0..NBanks /\ i \in Nat
    BY BanksNat DEF Banks
  <2>2. IF i - 1 < b THEN s[i-1] = t[i-1] ELSE s[i-1] + h[b] = t[i-1] + g[b]
    BY <1>4, Zenon
  <2>3. s[i-1] \in Nat /\ t[i-1] \in Nat /\ g[i] \in Nat /\ h[i] \in Nat /\ (i # b => g[i] = h[i])
    BY <1>1, <2>1
  <2>4. s[i] = s[i-1] + g[i] /\ t[i] = t[i-1] + h[i]
    BY <1>1, <2>1
  <2>5. CASE i = b
    <3>1. s[i-1] = t[i-1]
      BY <2>1, <2>2, <2>5
    <3>2. s[i] + h[b] = t[i] + g[b] /\ ~(i < b)
      BY <1>2, <2>3, <2>4, <2>5, <3>1
    <3> QED BY <2>1, <3>2
  <2>6. CASE i < b
    <3>1. s[i] = t[i]
      BY <1>2, <2>1, <2>2, <2>3, <2>4, <2>6
    <3> QED BY <2>1, <2>6, <3>1
  <2>7. CASE b < i
    <3>1. ~(i - 1 < b) /\ ~(i < b) /\ i # b
      BY <1>2, <2>1, <2>7
    <3>2. s[i] + h[b] = t[i] + g[b]
      BY <1>2, <2>2, <2>3, <2>4, <3>1
    <3> QED BY <2>1, <3>1, <3>2
  <2> QED BY <1>2, <2>1, <2>5, <2>6, <2>7
<1> HIDE DEF T
<1>5. \A i \in 0..NBanks : i \in T
  BY <1>2, <1>3, <1>4, Induct
<1>6. NBanks \in T
  BY <1>2, <1>5
<1> QED BY <1>2, <1>6 DEF T

LEMMA SumNat == ASSUME NEW f \in [Banks -> Nat], NEW S PROVE SumOver(f, S) \in Nat
<1>1. PICK s : Sums(s, Terms(f, S)) /\ SumOver(f, S) = s[NBanks]
  BY SumOverIs
<1> QED BY <1>1, BanksNat DEF Sums

LEMMA SumMono ==
  ASSUME NEW f \in [Banks -> Nat], NEW g \in [Banks -> Nat], \A i \in Banks : f[i] <= g[i]
  PROVE  SumOver(f, Banks) <= SumOver(g, Banks)
<1>1. PICK s : Sums(s, Terms(f, Banks)) /\ SumOver(f, Banks) = s[NBanks]
  BY SumOverIs
<1>2. PICK t : Sums(t, Terms(g, Banks)) /\ SumOver(g, Banks) = t[NBanks]
  BY SumOverIs
<1>3. Terms(f, Banks) = f /\ Terms(g, Banks) = g
  BY DEF Terms
<1> QED BY <1>1, <1>2, <1>3, SumsMono

LEMMA SumUpdate ==
  ASSUME NEW f \in [Banks -> Nat], NEW g \in [Banks -> Nat], NEW b \in Banks,
         \A i \in Banks : i # b => f[i] = g[i]
  PROVE  SumOver(f, Banks) + g[b] = SumOver(g, Banks) + f[b]
<1>1. PICK s : Sums(s, Terms(f, Banks)) /\ SumOver(f, Banks) = s[NBanks]
  BY SumOverIs
<1>2. PICK t : Sums(t, Terms(g, Banks)) /\ SumOver(g, Banks) = t[NBanks]
  BY SumOverIs
<1>3. Terms(f, Banks) = f /\ Terms(g, Banks) = g
  BY DEF Terms
<1>4. Sums(s, f) /\ Sums(t, g)
  BY <1>1, <1>2, <1>3
<1>5. s[NBanks] + g[b] = t[NBanks] + f[b]
  BY <1>4, SumsUpdate
<1> QED BY <1>1, <1>2, <1>5

LEMMA SumZero ==
  ASSUME NEW f \in [Banks -> Nat], \A i \in Banks : f[i] = 0 PROVE SumOver(f, Banks) = 0
<1>1. PICK s : Sums(s, Terms(f, Banks)) /\ SumOver(f, Banks) = s[NBanks]
  BY SumOverIs
<1>2. /\ s \in [0..NBanks -> Nat] /\ s[0] = 0 /\ \A i \in Banks : s[i] = s[i-1]
  <2>1. /\ s \in [0..NBanks -> Nat] /\ s[0] = 0 /\ \A i \in Banks : s[i] = s[i-1] + Terms(f, Banks)[i]
    BY <1>1 DEF Sums
  <2>2. \A i \in Banks : Terms(f, Banks)[i] = 0
    BY DEF Terms
  <2>3. \A i \in Banks : s[i-1] \in Nat
    BY <2>1, BanksNat
  <2> QED BY <2>1, <2>2, <2>3
<1> DEFINE T == {i \in 0..NBanks : s[i] = 0}
<1>3. NBanks \in Nat /\ 0 \in 0..NBanks /\ NBanks \in 0..NBanks
  BY BanksNat
<1>4. 0 \in T
  BY <1>2, <1>3
<1>5. \A i \in 1..NBanks : i - 1 \in T => i \in T
  BY <1>2, BanksNat DEF Banks
<1> HIDE DEF T
<1>6. \A i \in 0..NBanks : i \in T
  BY <1>3, <1>4, <1>5, Induct
<1> QED BY <1>1, <1>3, <1>6 DEF T

\* A sum is at least each of its terms.
LEMMA SumAtLeast ==
  ASSUME NEW f \in [Banks -> Nat], NEW b \in Banks PROVE f[b] <= SumOver(f, Banks)
<1> DEFINE g == [i \in Banks |-> IF i = b THEN 0 ELSE f[i]]
<1>1. g \in [Banks -> Nat] /\ g[b] = 0 /\ \A i \in Banks : i # b => f[i] = g[i]
  OBVIOUS
<1> HIDE DEF g
<1>2. SumOver(f, Banks) + g[b] = SumOver(g, Banks) + f[b]
  BY <1>1, SumUpdate
<1>3. SumOver(f, Banks) \in Nat /\ SumOver(g, Banks) \in Nat /\ f[b] \in Nat
  BY <1>1, SumNat
<1> QED BY <1>1, <1>2, <1>3

-----------------------------------------------------------------------------
(* The evaluator. *)

Word == [sum : 0..WordMax, ovf : BOOLEAN]

\* A checked sum that did not overflow is the sum over the integers.
LEMMA SatAddExact ==
  ASSUME NEW acc \in Word, NEW x \in Nat
  PROVE  /\ SatAdd(acc, x) \in Word
         /\ ~SatAdd(acc, x).ovf => ~acc.ovf /\ SatAdd(acc, x).sum = acc.sum + x
<1>1. WordMax \in Nat /\ acc.sum \in 0..WordMax /\ acc.ovf \in BOOLEAN
  BY MemGovAssumption DEF Word
<1>2. CASE x > WordMax - acc.sum
  <2>1. SatAdd(acc, x) = [sum |-> WordMax, ovf |-> TRUE]
    BY <1>2 DEF SatAdd
  <2> QED BY <1>1, <2>1 DEF Word
<1>3. CASE ~(x > WordMax - acc.sum)
  <2>1. SatAdd(acc, x) = [sum |-> acc.sum + x, ovf |-> acc.ovf]
    BY <1>3 DEF SatAdd
  <2>2. acc.sum + x \in 0..WordMax
    BY <1>1, <1>3
  <2> QED BY <1>1, <2>1, <2>2 DEF Word
<1> QED BY <1>2, <1>3

LeaseRec == [intent : Nat, resident : Nat, reservation : Nat]

LEMMA LessNat == ASSUME NEW a \in Nat, NEW b \in Nat PROVE Less(a, b) \in Nat
BY DEF Less

\* A quote that admits is backed: the checked sums that the evaluator compares
\* with what is free are the integer sums.
LEMMA AdmitBacked ==
  ASSUME lease \in [LeaseHolders -> LeaseRec], NEW proposed \in Nat, NEW free \in Int, NEW limit, NEW obs,
         Evaluate(lease, obs, free, "bank", proposed, limit) = "admit"
  PROVE  Backed(proposed, free)
<1> DEFINE o == lease["serial"]
           k == lease["bank"]
           owed == o.intent - o.resident
           unf == Less(proposed, k.resident)
           t1 == SatAdd(Nothing, o.intent)
           t2 == SatAdd(t1, proposed)
           r1 == SatAdd(Nothing, Floor)
           r2 == SatAdd(r1, o.reservation)
           r3 == SatAdd(r2, owed)
           r4 == SatAdd(r3, unf)
<1>1. (CHOOSE c \in LeaseHolders : c # "bank") = "serial"
  BY DEF LeaseHolders
<1>2. /\ ~\E c \in LeaseHolders : lease[c].resident > lease[c].intent
      /\ ~t2.ovf /\ ~r4.ovf /\ free >= r4.sum
  BY <1>1, Zenon DEF Evaluate
<1>3. "serial" \in LeaseHolders /\ "bank" \in LeaseHolders
  BY DEF LeaseHolders
<1>4. o \in LeaseRec /\ k \in LeaseRec
  BY <1>3
<1>5. ~(o.resident > o.intent)
  BY <1>2, <1>3
<1> HIDE DEF o, k
<1>6. o.intent \in Nat /\ o.resident \in Nat /\ o.reservation \in Nat /\ k.resident \in Nat /\ Floor \in Nat
  BY <1>4, MemGovAssumption DEF LeaseRec
<1>7. owed \in Nat /\ unf \in Nat
  <2>1. unf \in Nat
    BY <1>6, LessNat
  <2>2. owed \in Nat
    BY <1>5, <1>6
  <2> QED BY <2>1, <2>2
<1>8. Nothing \in Word /\ Nothing.sum = 0
  BY MemGovAssumption DEF Nothing, Word
<1> HIDE DEF owed, unf
<1>9. t1 \in Word /\ (~t1.ovf => t1.sum = o.intent)
  <2>1. t1 \in Word /\ (~t1.ovf => ~Nothing.ovf /\ t1.sum = Nothing.sum + o.intent)
    BY <1>6, <1>8, SatAddExact
  <2> HIDE DEF t1
  <2> QED BY <1>6, <1>8, <2>1
<1>10. t2 \in Word /\ (~t2.ovf => ~t1.ovf /\ t2.sum = t1.sum + proposed)
  <2> HIDE DEF t1
  <2> QED BY <1>9, SatAddExact
<1>11. r1 \in Word /\ (~r1.ovf => r1.sum = Floor)
  <2>1. r1 \in Word /\ (~r1.ovf => ~Nothing.ovf /\ r1.sum = Nothing.sum + Floor)
    BY <1>6, <1>8, SatAddExact
  <2> HIDE DEF r1
  <2> QED BY <1>6, <1>8, <2>1
<1>12. r2 \in Word /\ (~r2.ovf => ~r1.ovf /\ r2.sum = r1.sum + o.reservation)
  <2> HIDE DEF r1
  <2> QED BY <1>6, <1>11, SatAddExact
<1>13. r3 \in Word /\ (~r3.ovf => ~r2.ovf /\ r3.sum = r2.sum + owed)
  <2> HIDE DEF r2
  <2> QED BY <1>7, <1>12, SatAddExact
<1>14. r4 \in Word /\ (~r4.ovf => ~r3.ovf /\ r4.sum = r3.sum + unf)
  <2> HIDE DEF r3
  <2> QED BY <1>7, <1>13, SatAddExact
<1> HIDE DEF t1, t2, r1, r2, r3, r4
<1>15. t2.sum = o.intent + proposed /\ t2.sum <= WordMax
  BY <1>2, <1>6, <1>9, <1>10, MemGovAssumption DEF Word
<1>16. r4.sum = Floor + o.reservation + owed + unf
  BY <1>2, <1>6, <1>7, <1>11, <1>12, <1>13, <1>14
<1>17. proposed + o.intent <= WordMax
  BY <1>6, <1>15
<1>18. Floor + o.reservation + o.intent - o.resident + Less(proposed, k.resident) <= free
  BY <1>2, <1>6, <1>7, <1>16 DEF owed, unf
<1> QED BY <1>17, <1>18 DEF Backed, o, k

-----------------------------------------------------------------------------
(* The trims. *)

\* What the type invariant says of the pages and the free memory.
LEMMA Types ==
  ASSUME TypeOK
  PROVE  /\ pages \in [Banks -> Nat] /\ Mapped(pages) \in Nat /\ credit \in [Banks -> Nat]
         /\ session \in Nat /\ pool \in Nat /\ outside \in Nat
         /\ lease \in [LeaseHolders -> LeaseRec]
         /\ Free(pages, pool) = Total - Eager - Mapped(pages) - session - pool - outside
         /\ Free(pages, pool) >= 0
<1>1. pages \in [Banks -> 0..Total] /\ credit \in [Banks -> Lengths \cup {0}] /\ session \in Sessions \cup {0}
  BY DEF TypeOK
<1>2. pages \in [Banks -> Nat] /\ credit \in [Banks -> Nat] /\ session \in Nat
  <2>1. 0..Total \subseteq Nat /\ Lengths \cup {0} \subseteq Nat /\ Sessions \cup {0} \subseteq Nat
    BY MemGovAssumption
  <2> QED BY <1>1, <2>1
<1>3. Mapped(pages) \in Nat
  BY <1>2, SumNat DEF Mapped
<1>4. pool \in Nat /\ outside \in Nat /\ lease \in [LeaseHolders -> LeaseRec] /\ Free(pages, pool) >= 0
  BY MemGovAssumption DEF TypeOK, LeaseRec
<1>5. Free(pages, pool) = Total - Eager - Mapped(pages) - session - pool - outside
  BY DEF Free
<1> QED BY <1>2, <1>3, <1>4, <1>5

LEMMA ConstNat ==
  /\ NBanks \in Nat /\ Total \in Nat /\ Eager \in Nat /\ Floor \in Nat /\ Reserve \in Nat /\ Headroom \in Nat
  /\ Budget \in Nat /\ WordMax \in Nat /\ MaxOutside \in Nat /\ MaxPool \in Nat
  /\ Lengths \subseteq Nat \ {0} /\ Sessions \subseteq Nat \ {0}
  /\ Modes \subseteq {"observe", "enforce"}
BY MemGovAssumption

\* Bank by bank, q holds no more than p.
Below(q, p) == q \in [Banks -> Nat] /\ \A c \in Banks : q[c] <= p[c]

\* The banks whose pages a check for bank b must leave alone.
Spared(q, p, b) == \A c \in Banks : c = b \/ credit[c] # 0 => q[c] = p[c]

LEMMA TrimmedBelow ==
  ASSUME NEW pg \in [Banks -> Nat], NEW V PROVE Below(Trimmed(pg, V), pg)
BY DEF Below, Trimmed

\* A trim takes whole banks, and only banks without a row.
LEMMA TrimsSpare ==
  ASSUME NEW pg \in [Banks -> Nat], NEW b \in Banks, NEW keep, NEW want, NEW V \in Trims(pg, b, keep, want)
  PROVE  Spared(Trimmed(pg, V), pg, b)
<1>1. V = {} \/ V \subseteq Victims(pg, b, keep)
  BY DEF Trims
<1>2. \A c \in V : c # b /\ credit[c] = 0
  BY <1>1 DEF Victims
<1> QED BY <1>2 DEF Spared, Trimmed

\* What a funding check has done to the pages and the pool when it decides, and
\* what the look it decides on has seen: the memory as the trims left it.
LEMMA FundCheckTrims ==
  ASSUME TypeOK, NEW b \in Banks, NEW n \in Lengths, NEW keep, FundCheck(b, n, keep)
  PROVE  \E pg1, pg2, pl, look, gobs :
           /\ Below(pg1, pages) /\ Below(pg2, pg1) /\ Below(pg2, pages)
           /\ Spared(pg2, pages, b) /\ pl \in {0, pool} /\ look \in Looks(pg2, pl) /\ gobs \in Results
           /\ Decide(b, n, Growth(pages, credit, b, n), pg1, pg2, pl, look, gobs)
<1> DEFINE need == Growth(pages, credit, b, n)
           Pool(p, l) == PoolAfter(need, OverBudget(need, p), l)
           Ends(p, q, l) == \E look3 \in IF Pool(p, l) # pool THEN Looks(q, Pool(p, l)) ELSE {l}, gobs \in Results :
                              Decide(b, n, need, p, q, Pool(p, l), look3, gobs)
           Goes(p, q, W, l) == \E look2 \in IF W # {} THEN Looks(q, pool) ELSE {l} : Ends(p, q, look2)
           Begins(p) == \E look1 \in Looks(p, pool) : \E W \in FloorTrims(need, p, b, keep, look1) :
                          Goes(p, Trimmed(p, W), W, look1)
<1>1. PICK V \in ClassTrims(need, b, keep) : Begins(Trimmed(pages, V))
  BY DEF FundCheck
<1> DEFINE pg1 == Trimmed(pages, V)
<1>2. PICK look1 \in Looks(pg1, pool) : \E W \in FloorTrims(need, pg1, b, keep, look1) :
        Goes(pg1, Trimmed(pg1, W), W, look1)
  BY <1>1
<1>3. PICK W \in FloorTrims(need, pg1, b, keep, look1) : Goes(pg1, Trimmed(pg1, W), W, look1)
  BY <1>2
<1> DEFINE pg2 == Trimmed(pg1, W)
<1>4. PICK look2 \in IF W # {} THEN Looks(pg2, pool) ELSE {look1} : Ends(pg1, pg2, look2)
  BY <1>3
<1> DEFINE pl == Pool(pg1, look2)
<1>5. PICK look3 \in IF pl # pool THEN Looks(pg2, pl) ELSE {look2}, gobs \in Results :
        Decide(b, n, need, pg1, pg2, pl, look3, gobs)
  BY <1>4
<1>6. pl \in {0, pool}
  BY DEF PoolAfter
<1> HIDE DEF need, Begins, Goes, Ends, pl
<1>7. pages \in [Banks -> Nat]
  BY Types
<1>8. Below(pg1, pages)
  BY <1>7, TrimmedBelow
<1>9. Spared(pg1, pages, b)
  <2>1. CASE V = {}
    BY <1>7, <2>1 DEF Spared, Trimmed
  <2>2. CASE V # {}
    <3>1. V \in Trims(pages, b, keep, Mapped(pages) + need - Budget)
      BY <2>2, <1>1 DEF ClassTrims
    <3> QED BY <1>7, <3>1, TrimsSpare
  <2> QED BY <2>1, <2>2
<1>10. pg1 \in [Banks -> Nat]
  BY <1>8 DEF Below
<1> HIDE DEF pg1
<1>11. Below(pg2, pg1)
  BY <1>10, TrimmedBelow
<1>12. Spared(pg2, pg1, b)
  <2>1. CASE W = {}
    BY <1>10, <2>1 DEF Spared, Trimmed
  <2>2. CASE W # {}
    <3>1. W \in Trims(pg1, b, keep, need - look1.usable)
      BY <2>2, <1>3 DEF FloorTrims
    <3> QED BY <1>10, <3>1, TrimsSpare
  <2> QED BY <2>1, <2>2
<1>13. W = {} => pg2 = pg1
  BY <1>10 DEF Trimmed
<1> HIDE DEF pg2
<1>14. look2 \in Looks(pg2, pool)
  <2>1. CASE W = {}
    BY <1>2, <1>4, <1>13, <2>1
  <2>2. CASE W # {}
    BY <1>4, <2>2
  <2> QED BY <2>1, <2>2
<1>15. look3 \in Looks(pg2, pl)
  <2>1. CASE pl = pool
    BY <1>5, <1>14, <2>1
  <2>2. CASE pl # pool
    BY <1>5, <2>2
  <2> QED BY <2>1, <2>2
<1>16. Below(pg2, pages)
  <2>1. pg2 \in [Banks -> Nat] /\ pg1 \in [Banks -> Nat] /\ \A c \in Banks : pg2[c] <= pg1[c] /\ pg1[c] <= pages[c]
    BY <1>8, <1>11 DEF Below
  <2>2. \A c \in Banks : pg2[c] <= pages[c]
    BY <1>7, <2>1
  <2> QED BY <2>1, <2>2 DEF Below
<1>17. Spared(pg2, pages, b)
  BY <1>9, <1>12 DEF Spared
<1> QED BY <1>5, <1>6, <1>8, <1>11, <1>15, <1>16, <1>17, Zenon DEF need

LEMMA MappedMono ==
  ASSUME NEW p \in [Banks -> Nat], NEW q, Below(q, p)
  PROVE  Mapped(q) \in Nat /\ Mapped(p) \in Nat /\ Mapped(q) <= Mapped(p)
<1>1. q \in [Banks -> Nat] /\ \A c \in Banks : q[c] <= p[c]
  BY DEF Below
<1> QED BY <1>1, SumNat, SumMono DEF Mapped

-----------------------------------------------------------------------------
(* The ledger: one lemma per action. *)

\* The debts of the rows at credits cr over pages pg.
Debts(pg, cr) == [c \in Banks |-> Less(cr[c], pg[c])]

LEMMA DebtsNat ==
  ASSUME NEW pg \in [Banks -> Nat], NEW cr \in [Banks -> Nat]
  PROVE  Debts(pg, cr) \in [Banks -> Nat] /\ SumOver(Debts(pg, cr), Banks) \in Nat
<1>1. Debts(pg, cr) \in [Banks -> Nat]
  BY DEF Debts, Less
<1> QED BY <1>1, SumNat

\* The projection for bank b at length n is the debt once b has that credit.
Credited(cr, b, n) == [c \in Banks |-> IF c = b THEN n ELSE cr[c]]

LEMMA GrowthIs ==
  ASSUME NEW pg, NEW cr, NEW b, NEW n
  PROVE  Growth(pg, cr, b, n) = SumOver(Debts(pg, Credited(cr, b, n)), Banks)
<1>1. Debts(pg, Credited(cr, b, n)) = [c \in Banks |-> Less(IF c = b THEN n ELSE cr[c], pg[c])]
  BY DEF Debts, Credited
<1> QED BY <1>1 DEF Growth

LEMMA DueIs == Due = SumOver(Debts(pages, credit), Banks)
BY DEF Due, Debts

LEMMA GrowthNat ==
  ASSUME NEW pg \in [Banks -> Nat], NEW cr \in [Banks -> Nat], NEW b \in Banks, NEW n \in Nat
  PROVE  Growth(pg, cr, b, n) \in Nat
<1>1. Credited(cr, b, n) \in [Banks -> Nat]
  BY DEF Credited
<1>2. Growth(pg, cr, b, n) = SumOver(Debts(pg, Credited(cr, b, n)), Banks)
  BY GrowthIs
<1> QED BY <1>1, <1>2, DebtsNat

\* A step that makes no decision, keeps the mode and stays within the box's
\* types keeps the quotes sound.
LEMMA QuietQuote == ASSUME last' = NoDecision PROVE QuoteSound'
BY DEF QuoteSound, NoDecision

LEMMA PublishedType ==
  ASSUME NEW lg \in [LeaseHolders -> LeaseRec], NEW c \in LeaseHolders, NEW i \in Nat, NEW r \in Nat
  PROVE  /\ Published(lg, c, i, r) \in [LeaseHolders -> LeaseRec]
         /\ Published(lg, c, i, r)[c].intent = i /\ Published(lg, c, i, r)[c].resident = r
         /\ \A d \in LeaseHolders : d # c => Published(lg, c, i, r)[d] = lg[d]
<1> DEFINE x == [intent |-> i, resident |-> r, reservation |-> lg[c].reservation]
<1>1. x \in LeaseRec /\ x.intent = i /\ x.resident = r
  BY DEF LeaseRec
<1>2. Published(lg, c, i, r) = [lg EXCEPT ![c] = x]
  BY DEF Published
<1> HIDE DEF x
<1> QED BY <1>1, <1>2

\* A decision: what it publishes and grants.
LEMMA DecideLedger ==
  ASSUME LedgerSound, NEW b \in Banks, NEW n \in Lengths, NEW look, NEW gobs, NEW pg1, NEW pg2, NEW pl,
         Below(pg1, pages), Below(pg2, pages), pl \in {0, pool},
         NEW need \in Nat, Decide(b, n, need, pg1, pg2, pl, look, gobs)
  PROVE  LedgerSound'
<1> DEFINE class == OverBudget(need, pg1)
           res == Eager + Mapped(pg1)
           legacy == Legacy(need, class, look.usable)
           limit == IF Budget # 0 THEN Eager + Budget ELSE 0
           quote == Evaluate(lease, gobs, Free(pg2, pl), "bank", res + need, limit)
           verdict == IF need # 0 THEN Governed(legacy, quote) ELSE "admit"
           quoted == mode = "enforce" /\ gobs = "ok"
           granted == verdict = "admit" /\ need # 0
           seen == look.ok \/ quoted
<1>1. /\ pages' = pg2 /\ pool' = pl /\ session' = session /\ outside' = outside /\ mode' = mode
      /\ credit' = IF verdict = "admit" THEN [credit EXCEPT ![b] = n] ELSE credit
      /\ lease' = IF verdict = "admit" THEN Published(lease, "bank", res + need, res) ELSE lease
      /\ blind' = (blind \/ (granted /\ ~seen))
      /\ over' = IF ~granted THEN over ELSE IF quoted THEN Less(lease["bank"].resident, res) ELSE 0
      /\ last' = [verdict |-> verdict, quote |-> quote, seen |-> seen, need |-> need,
                  free |-> Free(pg2, pl), backed |-> Backed(res + need, Free(pg2, pl))]
  BY DEF Decide
<1>2. TypeOK
  BY DEF LedgerSound
<1>3. pl \in {0, pool}
  OBVIOUS
<1>4. quote \in Statuses
  BY DEF Evaluate, Statuses
<1>5. legacy \in Statuses
  BY DEF Legacy, Statuses
<1> HIDE DEF legacy, limit, quote
<1>6. verdict \in Statuses
  BY <1>4, <1>5 DEF Governed, Statuses
<1> HIDE DEF quoted, seen
<1>7. Mapped(pg1) \in Nat /\ Mapped(pg2) \in Nat /\ Mapped(pg2) <= Mapped(pages) /\ res \in Nat /\ pages \in [Banks -> Nat]
  BY <1>2, Types, MappedMono, ConstNat
<1>8. res + need \in Nat
  BY <1>7
<1> HIDE DEF res
<1>9. Free(pg2, pl) = Total - Eager - Mapped(pg2) - session - pl - outside /\ Free(pg2, pl) >= Free(pages, pool)
  BY <1>2, <1>3, <1>7, Types, ConstNat DEF Free
<1>10. Free(pg2, pl) \in Int /\ Free(pg2, pl) >= 0
  BY <1>2, <1>3, <1>7, <1>9, Types, ConstNat
<1>11. TypeOK'
  <2>1. pages' \in [Banks -> 0..Total]
    <3>1. pg2 \in [Banks -> Nat] /\ \A c \in Banks : pg2[c] <= pages[c] /\ pages[c] \in 0..Total
      BY <1>2 DEF Below, TypeOK
    <3>2. \A c \in Banks : pg2[c] \in 0..Total
      BY <3>1, ConstNat
    <3> QED BY <1>1, <3>1, <3>2
  <2>2. credit' \in [Banks -> Lengths \cup {0}]
    BY <1>1, <1>2 DEF TypeOK
  <2>3. pool' \in 0..MaxPool /\ session' \in Sessions \cup {0} /\ outside' \in 0..MaxOutside /\ mode' \in Modes
    BY <1>1, <1>2, <1>3, ConstNat DEF TypeOK
  <2>4. lease' \in [LeaseHolders -> LeaseRec]
    <3>1. lease \in [LeaseHolders -> LeaseRec] /\ "bank" \in LeaseHolders
      BY <1>2, Types DEF LeaseHolders
    <3>2. Published(lease, "bank", res + need, res) \in [LeaseHolders -> LeaseRec]
      BY <1>7, <1>8, <3>1, PublishedType
    <3> QED BY <1>1, <3>1, <3>2
  <2>5. last'.verdict \in Statuses \cup {"none"}
    BY <1>1, <1>6
  <2>6. blind' \in BOOLEAN /\ over' \in Nat
    <3>1. blind \in BOOLEAN /\ over \in Nat
      BY <1>2 DEF TypeOK
    <3>2. Less(lease["bank"].resident, res) \in Nat
      <4>1. lease["bank"] \in LeaseRec
        BY <1>2, Types DEF LeaseHolders
      <4> QED BY <1>7, <4>1, LessNat DEF LeaseRec
    <3> QED BY <1>1, <3>1, <3>2, Zenon
  <2>7. Free(pages, pool)' >= 0
    BY <1>1, <1>10 DEF Free
  <2> QED BY <2>1, <2>2, <2>3, <2>4, <2>5, <2>6, <2>7 DEF TypeOK, LeaseRec
<1>12. QuoteSound'
  <2>1. last'.quote = quote /\ last'.verdict = verdict /\ last'.need = need
        /\ last'.backed = Backed(res + need, Free(pg2, pl))
    BY <1>1
  <2>2. quote = "admit" => Backed(res + need, Free(pg2, pl))
    BY <1>2, <1>8, <1>10, Types, AdmitBacked DEF quote
  <2>3. mode = "enforce" /\ quote = "fault" /\ need > 0 => verdict # "admit"
    BY DEF Governed
  <2> HIDE DEF verdict
  <2> QED BY <1>1, <2>1, <2>2, <2>3 DEF QuoteSound
<1>13. RowEndSettles'
  <2>1. CASE verdict = "admit"
    <3>1. credit' = [credit EXCEPT ![b] = n] /\ credit \in [Banks -> Nat] /\ n # 0
      BY <1>1, <1>2, <2>1, Types, ConstNat
    <3>2. credit'[b] # 0
      BY <3>1
    <3> QED BY <3>2 DEF RowEndSettles
  <2>2. CASE verdict # "admit"
    BY <1>1, <2>2 DEF LedgerSound, RowEndSettles
  <2> QED BY <2>1, <2>2
<1> QED BY <1>11, <1>12, <1>13 DEF LedgerSound

LEMMA FundCheckLedger ==
  ASSUME LedgerSound, NEW b \in Banks, NEW n \in Lengths, NEW keep,
         FundCheck(b, n, keep)
  PROVE  LedgerSound'
<1> DEFINE need == Growth(pages, credit, b, n)
<1>1. TypeOK
  BY DEF LedgerSound
<1>2. PICK pg1, pg2, pl, look, gobs : /\ Below(pg1, pages) /\ Below(pg2, pages) /\ pl \in {0, pool}
                                      /\ Decide(b, n, need, pg1, pg2, pl, look, gobs)
  BY <1>1, FundCheckTrims
<1>3. need \in Nat
  BY <1>1, Types, ConstNat, GrowthNat
<1> HIDE DEF need
<1> QED BY <1>2, <1>3, DecideLedger

LEMMA FaultLedger == ASSUME LedgerSound, NEW b \in Banks, Fault(b) PROVE LedgerSound'
<1>1. /\ pages[b] < credit[b] /\ Free(pages, pool) > 0 /\ pages' = [pages EXCEPT ![b] = pages[b] + 1]
      /\ last' = NoDecision
      /\ UNCHANGED <<credit, session, pool, outside, lease, blind, over, mode>>
  BY DEF Fault
<1>2. TypeOK
  BY DEF LedgerSound
<1>3. pages \in [Banks -> Nat] /\ pages[b] \in Nat
  BY <1>2, Types
<1>4. pages' \in [Banks -> Nat] /\ pages'[b] = pages[b] + 1 /\ \A c \in Banks : c # b => pages[c] = pages'[c]
  BY <1>1, <1>3
<1>5. Mapped(pages') = Mapped(pages) + 1
  <2> DEFINE q == pages'
  <2>1. q \in [Banks -> Nat] /\ q[b] = pages[b] + 1 /\ \A c \in Banks : c # b => pages[c] = q[c]
    BY <1>4
  <2> HIDE DEF q
  <2>2. SumOver(pages, Banks) + q[b] = SumOver(q, Banks) + pages[b]
    BY <1>3, <2>1, SumUpdate
  <2>3. SumOver(pages, Banks) \in Nat /\ SumOver(q, Banks) \in Nat
    BY <1>3, <2>1, SumNat
  <2>4. SumOver(q, Banks) = SumOver(pages, Banks) + 1
    BY <1>3, <2>1, <2>2, <2>3
  <2> QED BY <2>4 DEF Mapped, q
<1>6. Free(pages, pool)' = Free(pages, pool) - 1
  BY <1>1, <1>2, <1>5, Types, ConstNat DEF Free, Mapped
<1>7. TypeOK'
  <2>1. pages[b] <= Mapped(pages)
    BY <1>3, SumAtLeast DEF Mapped
  <2>2. pages[b] + 1 \in 0..Total
    BY <1>1, <1>2, <1>3, <2>1, Types, ConstNat
  <2>3. pages' \in [Banks -> 0..Total]
    BY <1>1, <1>2, <2>2 DEF TypeOK
  <2>4. last'.verdict \in Statuses \cup {"none"}
    BY <1>1 DEF NoDecision
  <2>5. Free(pages, pool)' >= 0
    BY <1>1, <1>2, <1>6, Types, ConstNat
  <2> QED BY <1>1, <1>2, <2>3, <2>4, <2>5 DEF TypeOK
<1>8. RowEndSettles'
  BY <1>1 DEF LedgerSound, RowEndSettles
<1> QED BY <1>1, <1>7, <1>8, QuietQuote DEF LedgerSound

LEMMA RowEndLedger == ASSUME LedgerSound, NEW b \in Banks, RowEnd(b) PROVE LedgerSound'
<1> DEFINE cr == [credit EXCEPT ![b] = 0]
           grow == Growth(pages, cr, b, 0)
           res == Eager + Mapped(pages)
<1>1. /\ credit' = cr /\ lease' = Published(lease, "bank", res + grow, res) /\ last' = NoDecision
      /\ UNCHANGED <<pages, session, pool, outside, blind, over, mode>>
  BY DEF RowEnd
<1>2. TypeOK
  BY DEF LedgerSound
<1>3. credit \in [Banks -> Lengths \cup {0}] /\ credit \in [Banks -> Nat] /\ pages \in [Banks -> Nat]
  BY <1>2, Types DEF TypeOK
<1>4. cr \in [Banks -> Lengths \cup {0}] /\ cr \in [Banks -> Nat]
  BY <1>3
<1>5. cr = Credited(cr, b, 0)
  BY <1>3 DEF Credited
<1> HIDE DEF cr
<1>6. grow \in Nat /\ res \in Nat /\ res + grow \in Nat
  <2>1. grow \in Nat
    BY <1>3, <1>4, GrowthNat
  <2>2. res \in Nat
    BY <1>2, Types, ConstNat
  <2> QED BY <2>1, <2>2
<1>7. (\A c \in Banks : cr[c] = 0) => grow = 0
  <2>1. grow = SumOver(Debts(pages, cr), Banks)
    BY <1>5, GrowthIs
  <2>2. SUFFICES ASSUME \A c \in Banks : cr[c] = 0 PROVE grow = 0
    OBVIOUS
  <2>3. \A c \in Banks : Debts(pages, cr)[c] = 0
    BY <1>3, <2>2 DEF Debts, Less
  <2>4. Debts(pages, cr) \in [Banks -> Nat]
    BY <1>3, <1>4, DebtsNat
  <2> QED BY <2>1, <2>3, <2>4, SumZero
<1> HIDE DEF grow, res
<1>8. /\ lease' \in [LeaseHolders -> LeaseRec]
      /\ lease'["bank"].intent = res + grow /\ lease'["bank"].resident = res
  <2>1. lease \in [LeaseHolders -> LeaseRec] /\ "bank" \in LeaseHolders
    BY <1>2, Types DEF LeaseHolders
  <2> QED BY <1>1, <1>6, <2>1, PublishedType
<1>9. TypeOK'
  <2>1. Free(pages, pool)' = Free(pages, pool)
    BY <1>1 DEF Free, Mapped
  <2>2. last'.verdict \in Statuses \cup {"none"}
    BY <1>1 DEF NoDecision
  <2> QED BY <1>1, <1>2, <1>4, <1>8, <2>1, <2>2 DEF TypeOK, LeaseRec
<1>10. RowEndSettles'
  BY <1>1, <1>6, <1>7, <1>8 DEF RowEndSettles
<1> QED BY <1>1, <1>9, <1>10, QuietQuote DEF LedgerSound

LEMMA ReclaimLedger == ASSUME LedgerSound, NEW V \in SUBSET Banks, Reclaim(V) PROVE LedgerSound'
<1> DEFINE q == Trimmed(pages, V)
<1>1. pages' = q /\ last' = NoDecision /\ UNCHANGED <<credit, session, pool, outside, lease, blind, over, mode>>
  BY DEF Reclaim
<1>2. TypeOK
  BY DEF LedgerSound
<1>3. pages \in [Banks -> Nat] /\ pages \in [Banks -> 0..Total]
  BY <1>2, Types DEF TypeOK
<1>4. Below(q, pages)
  BY <1>3, TrimmedBelow
<1> HIDE DEF q
<1>5. Mapped(q) \in Nat /\ Mapped(q) <= Mapped(pages)
  BY <1>3, <1>4, MappedMono
<1>6. q \in [Banks -> 0..Total]
  <2>1. \A c \in Banks : q[c] \in Nat /\ q[c] <= pages[c] /\ pages[c] \in 0..Total
    BY <1>3, <1>4 DEF Below
  <2>2. \A c \in Banks : q[c] \in 0..Total
    BY <2>1, ConstNat
  <2> QED BY <1>4, <2>2 DEF Below
<1>7. TypeOK'
  <2>1. Free(q, pool) >= 0
    BY <1>2, <1>5, Types, ConstNat DEF Free
  <2>2. Free(pages, pool)' = Free(q, pool)
    BY <1>1 DEF Free
  <2>3. last'.verdict \in Statuses \cup {"none"}
    BY <1>1 DEF NoDecision
  <2> QED BY <1>1, <1>2, <1>6, <2>1, <2>2, <2>3 DEF TypeOK
<1>8. RowEndSettles'
  BY <1>1 DEF LedgerSound, RowEndSettles
<1> QED BY <1>1, <1>7, <1>8, QuietQuote DEF LedgerSound

\* The serial lane publishes its own lease and never the bank's.
LEMMA SerialLedger ==
  ASSUME LedgerSound, NEW n \in Sessions \cup {0}, session' = n,
         lease' = Published(lease, "serial", n, n), Free(pages, pool) + session - n >= 0,
         last' = NoDecision, UNCHANGED <<pages, credit, pool, outside, blind, over, mode>>
  PROVE  LedgerSound'
<1>1. TypeOK
  BY DEF LedgerSound
<1>2. n \in Nat
  BY ConstNat
<1>3. lease' \in [LeaseHolders -> LeaseRec] /\ lease'["bank"] = lease["bank"]
  <2>1. lease \in [LeaseHolders -> LeaseRec] /\ "serial" \in LeaseHolders /\ "bank" \in LeaseHolders /\ "bank" # "serial"
    BY <1>1, Types DEF LeaseHolders
  <2>2. /\ Published(lease, "serial", n, n) \in [LeaseHolders -> LeaseRec]
        /\ \A d \in LeaseHolders : d # "serial" => Published(lease, "serial", n, n)[d] = lease[d]
    BY <1>2, <2>1, PublishedType
  <2> QED BY <2>1, <2>2, Zenon
<1>4. TypeOK'
  <2>1. Free(pages, pool)' = Free(pages, pool) + session - n
    BY <1>1, <1>2, Types, ConstNat DEF Free, Mapped
  <2>2. Free(pages, pool)' >= 0
    BY <2>1
  <2>3. last'.verdict \in Statuses \cup {"none"}
    BY DEF NoDecision
  <2> QED BY <1>1, <1>3, <2>2, <2>3 DEF TypeOK, LeaseRec
<1>5. RowEndSettles'
  BY <1>3 DEF LedgerSound, RowEndSettles
<1> QED BY <1>4, <1>5, QuietQuote DEF LedgerSound

LEMMA BuildSessionLedger ==
  ASSUME LedgerSound, NEW n \in Sessions, NEW obs, BuildSession(n, obs) PROVE LedgerSound'
<1>1. /\ session = 0 /\ last' = NoDecision /\ UNCHANGED <<pages, credit, pool, outside, blind, over, mode>>
  BY DEF BuildSession
<1>2. TypeOK
  BY DEF LedgerSound
<1>3. CASE Free(pages, pool) >= n /\ session' = n /\ lease' = Published(lease, "serial", n, n)
  <2>1. Free(pages, pool) + session - n >= 0
    BY <1>1, <1>2, <1>3, Types, ConstNat
  <2> QED BY <1>1, <1>3, <2>1, SerialLedger
<1>4. CASE UNCHANGED session /\ lease' = Published(lease, "serial", 0, 0)
  <2> DEFINE z == 0
  <2>1. session' = z /\ lease' = Published(lease, "serial", z, z) /\ z \in Sessions \cup {0}
    BY <1>1, <1>4
  <2>2. Free(pages, pool) + session - z >= 0
    BY <1>1, <1>2, Types, ConstNat
  <2> HIDE DEF z
  <2> QED BY <1>1, <2>1, <2>2, SerialLedger
<1> QED BY <1>3, <1>4 DEF BuildSession

LEMMA FreeSessionLedger == ASSUME LedgerSound, FreeSession PROVE LedgerSound'
<1> DEFINE z == 0
<1>1. /\ session' = z /\ lease' = Published(lease, "serial", z, z) /\ z \in Sessions \cup {0} /\ last' = NoDecision
      /\ UNCHANGED <<pages, credit, pool, outside, blind, over, mode>>
  BY DEF FreeSession
<1>2. TypeOK
  BY DEF LedgerSound
<1>3. Free(pages, pool) + session - z >= 0
  BY <1>2, Types, ConstNat
<1> HIDE DEF z
<1> QED BY <1>1, <1>3, SerialLedger

\* The graph pool and other processes take and give back single pages.
LEMMA BoxLedger == ASSUME LedgerSound, PoolGrows \/ OutsideTakes \/ OutsideReturns PROVE LedgerSound'
<1>1. TypeOK
  BY DEF LedgerSound
<1>2. /\ last' = NoDecision /\ UNCHANGED <<pages, credit, session, lease, blind, over, mode>>
  BY DEF PoolGrows, OutsideTakes, OutsideReturns
<1>3. pool' \in 0..MaxPool /\ outside' \in 0..MaxOutside /\ Free(pages, pool)' >= 0
  <2>1. pool \in 0..MaxPool /\ outside \in 0..MaxOutside
    BY <1>1 DEF TypeOK
  <2>2. Mapped(pages)' = Mapped(pages)
    BY <1>2 DEF Mapped
  <2>3. Free(pages, pool)' = Total - Eager - Mapped(pages) - session - pool' - outside'
    BY <1>2, <2>2 DEF Free
  <2>4. CASE PoolGrows
    BY <1>1, <2>1, <2>3, <2>4, Types, ConstNat DEF PoolGrows
  <2>5. CASE OutsideTakes
    BY <1>1, <2>1, <2>3, <2>5, Types, ConstNat DEF OutsideTakes
  <2>6. CASE OutsideReturns
    BY <1>1, <2>1, <2>3, <2>6, Types, ConstNat DEF OutsideReturns
  <2> QED BY <2>4, <2>5, <2>6
<1>4. TypeOK'
  <2>1. last'.verdict \in Statuses \cup {"none"}
    BY <1>2 DEF NoDecision
  <2> QED BY <1>1, <1>2, <1>3, <2>1 DEF TypeOK
<1>5. RowEndSettles'
  BY <1>2 DEF LedgerSound, RowEndSettles
<1> QED BY <1>2, <1>4, <1>5, QuietQuote DEF LedgerSound

LEMMA InitLedger == ASSUME Init PROVE LedgerSound
<1>1. /\ pages = [c \in Banks |-> 0] /\ credit = [c \in Banks |-> 0] /\ session = 0 /\ pool = 0 /\ outside = 0
      /\ last = NoDecision /\ blind = FALSE /\ over = 0 /\ mode \in Modes
      /\ lease = [bank |-> [intent |-> Eager, resident |-> Eager, reservation |-> 0],
                  serial |-> [intent |-> 0, resident |-> 0, reservation |-> Reserve]]
  BY DEF Init
<1>2. Mapped(pages) = 0
  <2>1. pages \in [Banks -> Nat] /\ \A c \in Banks : pages[c] = 0
    BY <1>1
  <2> QED BY <2>1, SumZero DEF Mapped
<1>3. Free(pages, pool) >= 0
  BY <1>1, <1>2, ConstNat, MemGovAssumption DEF Free
<1>4. lease \in [LeaseHolders -> LeaseRec] /\ lease["bank"].intent = lease["bank"].resident
  <2>1. [intent |-> Eager, resident |-> Eager, reservation |-> 0] \in LeaseRec
        /\ [intent |-> 0, resident |-> 0, reservation |-> Reserve] \in LeaseRec
    BY ConstNat DEF LeaseRec
  <2> QED BY <1>1, <2>1 DEF LeaseHolders
<1>5. TypeOK
  <2>1. pages \in [Banks -> 0..Total] /\ pool \in 0..MaxPool /\ outside \in 0..MaxOutside
    BY <1>1, ConstNat
  <2>2. credit \in [Banks -> Lengths \cup {0}] /\ session \in Sessions \cup {0}
    BY <1>1
  <2>3. last.verdict \in Statuses \cup {"none"} /\ blind \in BOOLEAN /\ over \in Nat
    BY <1>1 DEF NoDecision
  <2> QED BY <1>1, <1>3, <1>4, <2>1, <2>2, <2>3 DEF TypeOK, LeaseRec
<1>6. QuoteSound
  BY <1>1 DEF QuoteSound, NoDecision
<1> QED BY <1>4, <1>5, <1>6 DEF LedgerSound, RowEndSettles

LEMMA NextLedger == ASSUME LedgerSound, [Next]_vars PROVE LedgerSound'
<1>1. ASSUME NEW b \in Banks, NEW n \in Lengths, Admit(b, n) \/ Extend(b, n) PROVE LedgerSound'
  <2>1. \E keep : FundCheck(b, n, keep)
    BY <1>1 DEF Admit, Extend
  <2> QED BY <2>1, FundCheckLedger
<1>2. ASSUME NEW b \in Banks, Fault(b) PROVE LedgerSound'
  BY <1>2, FaultLedger
<1>3. ASSUME NEW b \in Banks, RowEnd(b) PROVE LedgerSound'
  BY <1>3, RowEndLedger
<1>4. ASSUME NEW V \in SUBSET Banks, Reclaim(V) PROVE LedgerSound'
  BY <1>4, ReclaimLedger
<1>5. ASSUME NEW n \in Sessions, NEW obs \in Results, BuildSession(n, obs) PROVE LedgerSound'
  BY <1>5, BuildSessionLedger
<1>6. CASE FreeSession
  BY <1>6, FreeSessionLedger
<1>7. CASE PoolGrows \/ OutsideTakes \/ OutsideReturns
  BY <1>7, BoxLedger
<1>8. CASE UNCHANGED vars
  <2>1. TypeOK' /\ QuoteSound' /\ RowEndSettles'
    <3>1. TypeOK'
      BY <1>8 DEF vars, LedgerSound, TypeOK, Free, Mapped
    <3>2. QuoteSound'
      BY <1>8 DEF vars, LedgerSound, QuoteSound
    <3>3. RowEndSettles'
      BY <1>8 DEF vars, LedgerSound, RowEndSettles
    <3> QED BY <3>1, <3>2, <3>3
  <2> QED BY <2>1 DEF LedgerSound
<1> QED BY <1>1, <1>2, <1>3, <1>4, <1>5, <1>6, <1>7, <1>8 DEF Next

\* For every number of banks and every size of the box, in either mode of the
\* governor: the box is never overdrawn by a trim, a fault or a session; a
\* quote of ds4_gov_evaluate that admits is backed by the integer sums although
\* it is computed in words that saturate; an enforced fault grants nothing; and
\* after the last row's end the lane's lease promises only what is resident.
THEOREM LedgerSoundHolds == Spec => []LedgerSound
<1>1. Init => LedgerSound
  BY InitLedger
<1>2. LedgerSound /\ [Next]_vars => LedgerSound'
  BY NextLedger
<1> QED BY <1>1, <1>2, PTL DEF Spec

-----------------------------------------------------------------------------
(* Pages under a row. *)

\* No step takes a page from a bank whose row is credited: of the actions that
\* unmap, the two trims of a funding check spare every bank with a credit, and
\* the serial lane's reclaim runs only when there is none.
THEOREM CreditedKeepsPagesHolds == Spec => CreditedKeepsPages
<1> DEFINE Keeps == \A b \in Banks : credit[b] # 0 => pages'[b] >= pages[b]
<1>1. ASSUME LedgerSound, [Next]_vars PROVE Keeps
  <2>1. TypeOK
    BY <1>1 DEF LedgerSound
  <2>2. pages \in [Banks -> Nat]
    BY <2>1, Types
  <2>3. ASSUME NEW b \in Banks, NEW n \in Lengths, Admit(b, n) \/ Extend(b, n) PROVE Keeps
    <3>1. PICK keep : FundCheck(b, n, keep)
      BY <2>3 DEF Admit, Extend
    <3>2. PICK pg1, pg2, pl, look, gobs :
            Spared(pg2, pages, b) /\ Decide(b, n, Growth(pages, credit, b, n), pg1, pg2, pl, look, gobs)
      BY <2>1, <3>1, FundCheckTrims
    <3>3. pages' = pg2
      BY <3>2 DEF Decide
    <3> QED BY <2>2, <3>2, <3>3 DEF Spared
  <2>4. ASSUME NEW b \in Banks, Fault(b) PROVE Keeps
    <3>1. pages' = [pages EXCEPT ![b] = pages[b] + 1]
      BY <2>4 DEF Fault
    <3> QED BY <2>2, <3>1
  <2>5. ASSUME NEW V \in SUBSET Banks, Reclaim(V) PROVE Keeps
    BY <2>5 DEF Reclaim
  <2>6. CASE UNCHANGED pages
    BY <2>2, <2>6
  <2>7. ASSUME NEW b \in Banks, RowEnd(b) PROVE UNCHANGED pages
    BY <2>7 DEF RowEnd
  <2>8. ASSUME NEW n \in Sessions, NEW obs \in Results, BuildSession(n, obs) PROVE UNCHANGED pages
    BY <2>8 DEF BuildSession
  <2>9. CASE FreeSession \/ PoolGrows \/ OutsideTakes \/ OutsideReturns \/ UNCHANGED vars
    BY <2>6, <2>9 DEF FreeSession, PoolGrows, OutsideTakes, OutsideReturns, vars
  <2> HIDE DEF Keeps
  <2> QED BY <1>1, <2>3, <2>4, <2>5, <2>6, <2>7, <2>8, <2>9 DEF Next
<1>2. LedgerSound /\ [Next]_vars => [Keeps]_vars
  BY <1>1
<1>3. Spec => []LedgerSound
  BY LedgerSoundHolds
<1> QED BY <1>2, <1>3, PTL DEF Spec, CreditedKeepsPages

-----------------------------------------------------------------------------
(* Grants and promises. *)

\* The serial lane's lease keeps its carve-out and never owes.
SerialLease ==
  lease["serial"].reservation = Reserve /\ lease["serial"].resident <= lease["serial"].intent

\* GrantsCovered is inductive together with the ledger and the serial lease.
FundInv == LedgerSound /\ SerialLease /\ GrantsCovered

\* Publishing a use leaves the reservation as it is.
LEMMA SerialKept ==
  ASSUME NEW lg \in [LeaseHolders -> LeaseRec], NEW i \in Nat, NEW r \in Nat
  PROVE  /\ Published(lg, "bank", i, r)["serial"] = lg["serial"]
         /\ Published(lg, "serial", i, i)["serial"] =
              [intent |-> i, resident |-> i, reservation |-> lg["serial"].reservation]
BY DEF Published, LeaseHolders

LEMMA NextSerial ==
  ASSUME LedgerSound, SerialLease, [Next]_vars PROVE SerialLease'
<1>1. lease \in [LeaseHolders -> LeaseRec]
  BY Types DEF LedgerSound
<1>2. CASE lease' = lease
  BY <1>2 DEF SerialLease
<1>3. ASSUME NEW i \in Nat, NEW r \in Nat, lease' = Published(lease, "bank", i, r) PROVE SerialLease'
  BY <1>1, <1>3, SerialKept DEF SerialLease
<1>4. ASSUME NEW i \in Nat, lease' = Published(lease, "serial", i, i) PROVE SerialLease'
  <2>1. lease'["serial"] = [intent |-> i, resident |-> i, reservation |-> lease["serial"].reservation]
    BY <1>1, <1>4, SerialKept
  <2> QED BY <2>1 DEF SerialLease
<1>5. ASSUME NEW b \in Banks, NEW n \in Lengths, Admit(b, n) \/ Extend(b, n) PROVE SerialLease'
  <2> DEFINE need == Growth(pages, credit, b, n)
  <2>1. TypeOK
    BY DEF LedgerSound
  <2>2. \E keep : FundCheck(b, n, keep)
    BY <1>5 DEF Admit, Extend
  <2>3. PICK pg1, pg2, pl, look, gobs : Below(pg1, pages) /\ Decide(b, n, need, pg1, pg2, pl, look, gobs)
    BY <2>1, <2>2, FundCheckTrims
  <2>4. need \in Nat
    BY <2>1, Types, ConstNat, GrowthNat
  <2>5. Eager + Mapped(pg1) \in Nat
    BY <2>1, <2>3, Types, MappedMono, ConstNat
  <2> HIDE DEF need
  <2> DEFINE res == Eager + Mapped(pg1)
  <2>6. lease' = lease \/ lease' = Published(lease, "bank", res + need, res)
    BY <2>3 DEF Decide
  <2>7. res \in Nat /\ res + need \in Nat
    BY <2>4, <2>5
  <2> HIDE DEF res
  <2> QED BY <1>2, <1>3, <2>6, <2>7
<1>6. ASSUME NEW b \in Banks, RowEnd(b) PROVE SerialLease'
  <2> DEFINE cr == [credit EXCEPT ![b] = 0]
             grow == Growth(pages, cr, b, 0)
             res == Eager + Mapped(pages)
  <2>1. lease' = Published(lease, "bank", res + grow, res)
    BY <1>6 DEF RowEnd
  <2>2. TypeOK
    BY DEF LedgerSound
  <2>3. cr \in [Banks -> Nat] /\ pages \in [Banks -> Nat] /\ res \in Nat
    BY <2>2, Types, ConstNat
  <2> HIDE DEF cr
  <2>4. grow \in Nat
    BY <2>3, GrowthNat
  <2>5. res + grow \in Nat
    BY <2>3, <2>4
  <2> HIDE DEF grow, res
  <2> QED BY <1>3, <2>1, <2>3, <2>5
<1>7. ASSUME NEW n \in Sessions, NEW obs \in Results, BuildSession(n, obs) PROVE SerialLease'
  <2>1. n \in Nat /\ 0 \in Nat
    BY ConstNat
  <2>2. lease' = Published(lease, "serial", n, n) \/ lease' = Published(lease, "serial", 0, 0)
    BY <1>7 DEF BuildSession
  <2> QED BY <1>4, <2>1, <2>2
<1>8. CASE FreeSession
  <2>1. lease' = Published(lease, "serial", 0, 0) /\ 0 \in Nat
    BY <1>8 DEF FreeSession
  <2> QED BY <1>4, <2>1
<1>9. ASSUME NEW b \in Banks, Fault(b) PROVE lease' = lease
  BY <1>9 DEF Fault
<1>10. ASSUME NEW V \in SUBSET Banks, Reclaim(V) PROVE lease' = lease
  BY <1>10 DEF Reclaim
<1>11. CASE PoolGrows \/ OutsideTakes \/ OutsideReturns \/ UNCHANGED vars
  BY <1>2, <1>11 DEF PoolGrows, OutsideTakes, OutsideReturns, vars
<1> QED BY <1>2, <1>5, <1>6, <1>7, <1>8, <1>9, <1>10, <1>11 DEF Next

\* PromisesKept, with what cancels out of it left out.
Funded(mapped, due, ov) == Total - Eager - mapped + ov >= Floor + due + Reserve

LEMMA FundedIs ==
  ASSUME TypeOK PROVE PromisesKept <=> (~blind => Funded(Mapped(pages), Due, over))
<1>1. Free(pages, pool) + pool + outside + session = Total - Eager - Mapped(pages)
  BY Types, ConstNat
<1> QED BY <1>1 DEF PromisesKept, Funded

LEMMA FundedIsNext ==
  ASSUME TypeOK' PROVE PromisesKept' <=> (~blind' => Funded(Mapped(pages'), Due', over'))
<1>1. pages' \in [Banks -> Nat] /\ session' \in Nat /\ pool' \in Nat /\ outside' \in Nat
  BY ConstNat DEF TypeOK
<1>2. Mapped(pages') \in Nat
  <2> DEFINE q == pages'
  <2>1. q \in [Banks -> Nat]
    BY <1>1
  <2> HIDE DEF q
  <2>2. Mapped(q) \in Nat
    BY <2>1, SumNat DEF Mapped
  <2> QED BY <2>2 DEF q
<1>3. Free(pages, pool)' = Total - Eager - Mapped(pages') - session' - pool' - outside'
  BY DEF Free
<1>4. (Free(pages, pool) + pool + outside + session)' = Total - Eager - Mapped(pages')
  BY <1>1, <1>2, <1>3, ConstNat
<1> QED BY <1>4 DEF PromisesKept, Funded

LEMMA DueNext == Due' = SumOver(Debts(pages', credit'), Banks)
BY DEF Due, Debts

LEMMA DueNat == ASSUME TypeOK PROVE Due \in Nat
<1>1. pages \in [Banks -> Nat] /\ credit \in [Banks -> Nat]
  BY Types
<1> QED BY <1>1, DueIs, DebtsNat

\* A step without a decision need only keep the funding.
LEMMA QuietFunded ==
  ASSUME FundInv, LedgerSound', last' = NoDecision, blind' = blind, over' = over,
         Funded(Mapped(pages), Due, over) => Funded(Mapped(pages'), Due', over)
  PROVE  GrantsCovered'
<1>1. TypeOK /\ TypeOK'
  BY DEF FundInv, LedgerSound
<1>2. GrantFits'
  BY DEF GrantFits, Granted, NoDecision
<1>3. PromisesKept
  BY DEF FundInv, GrantsCovered
<1>4. PromisesKept'
  BY <1>1, <1>3, FundedIs, FundedIsNext
<1> QED BY <1>2, <1>4 DEF GrantsCovered

\* What a row is owed does not depend on the pages of banks without a row.
LEMMA SparedDue ==
  ASSUME NEW p \in [Banks -> Nat], NEW q \in [Banks -> Nat], NEW cr \in [Banks -> Nat],
         \A c \in Banks : cr[c] # 0 => q[c] = p[c]
  PROVE  Debts(q, cr) = Debts(p, cr)
<1>1. \A c \in Banks : Less(cr[c], q[c]) = Less(cr[c], p[c])
  BY DEF Less
<1> QED BY <1>1 DEF Debts

\* What the legacy formula grants on an observation.
LEMMA LegacyFits ==
  ASSUME NEW need \in Nat, need # 0, NEW class, NEW pg, NEW pl, Free(pg, pl) \in Int,
         NEW look \in Looks(pg, pl), look.ok, Legacy(need, class, look.usable) = "admit"
  PROVE  need + Floor + Reserve <= Free(pg, pl)
<1>1. PICK obs \in Results : look = [ok |-> obs = "ok", usable |-> Usable(obs, pg, pl)]
  BY DEF Looks
<1>2. obs = "ok" /\ look.usable = Usable(obs, pg, pl)
  BY <1>1
<1>3. look.usable = Less(Less(Free(pg, pl), Floor), Reserve)
  BY <1>2 DEF Usable
<1>4. ~(need > look.usable)
  BY DEF Legacy
<1> QED BY <1>3, <1>4, ConstNat DEF Less

\* What an enforced quote grants, for a claim of need over what is mapped: it
\* takes what the bank's lease calls resident beyond that for free memory.
LEMMA QuoteFits ==
  ASSUME lease \in [LeaseHolders -> LeaseRec], SerialLease, NEW need \in Nat, NEW res \in Nat, NEW free \in Int,
         NEW limit, NEW obs, Evaluate(lease, obs, free, "bank", res + need, limit) = "admit"
  PROVE  need + Floor + Reserve <= free + Less(lease["bank"].resident, res)
<1>1. res + need \in Nat
  OBVIOUS
<1>2. Backed(res + need, free)
  BY <1>1, AdmitBacked
<1> DEFINE o == lease["serial"]
           L == lease["bank"].resident
<1>3. o \in LeaseRec /\ lease["bank"] \in LeaseRec
  BY DEF LeaseHolders
<1>4. o.reservation = Reserve /\ o.resident <= o.intent /\ o.resident \in Nat /\ o.intent \in Nat /\ L \in Nat
  BY <1>3 DEF SerialLease, LeaseRec
<1>5. Floor + o.reservation + o.intent - o.resident + Less(res + need, L) <= free
  BY <1>2 DEF Backed
<1> HIDE DEF o, L
<1>6. Floor + Reserve + Less(res + need, L) <= free
  <2>1. Less(res + need, L) \in Nat
    BY <1>1, <1>4, LessNat
  <2> QED BY <1>4, <1>5, <2>1, ConstNat
<1>7. need <= Less(res + need, L) + Less(L, res)
  BY <1>4 DEF Less
<1>8. Less(res + need, L) \in Nat /\ Less(L, res) \in Nat
  BY <1>1, <1>4, LessNat
<1>9. need + Floor + Reserve <= free + Less(L, res)
  BY <1>6, <1>7, <1>8, ConstNat
<1> QED BY <1>9 DEF L

LEMMA DecideFunded ==
  ASSUME FundInv, LedgerSound', NEW b \in Banks, NEW n \in Lengths, NEW look, NEW gobs \in Results,
         NEW pg1, NEW pg2, NEW pl, Below(pg1, pages), Below(pg2, pages), Spared(pg2, pages, b),
         pl \in {0, pool}, look \in Looks(pg2, pl),
         NEW need, need = Growth(pages, credit, b, n), Decide(b, n, need, pg1, pg2, pl, look, gobs)
  PROVE  GrantsCovered'
<1> DEFINE class == OverBudget(need, pg1)
           res == Eager + Mapped(pg1)
           legacy == Legacy(need, class, look.usable)
           limit == IF Budget # 0 THEN Eager + Budget ELSE 0
           quote == Evaluate(lease, gobs, Free(pg2, pl), "bank", res + need, limit)
           verdict == IF need # 0 THEN Governed(legacy, quote) ELSE "admit"
           quoted == mode = "enforce" /\ gobs = "ok"
           granted == verdict = "admit" /\ need # 0
           seen == look.ok \/ quoted
           excess == Less(lease["bank"].resident, res)
<1>1. /\ pages' = pg2 /\ pool' = pl /\ session' = session /\ outside' = outside /\ mode' = mode
      /\ credit' = IF verdict = "admit" THEN [credit EXCEPT ![b] = n] ELSE credit
      /\ blind' = (blind \/ (granted /\ ~seen))
      /\ over' = IF ~granted THEN over ELSE IF quoted THEN excess ELSE 0
      /\ last'.verdict = verdict /\ last'.seen = seen /\ last'.need = need /\ last'.free = Free(pg2, pl)
  BY DEF Decide
<1>2. TypeOK /\ TypeOK' /\ SerialLease /\ PromisesKept
  BY DEF FundInv, LedgerSound, GrantsCovered
<1>3. need \in Nat /\ pages \in [Banks -> Nat] /\ credit \in [Banks -> Nat] /\ n \in Nat /\ pg2 \in [Banks -> Nat]
  BY <1>2, Types, ConstNat, GrowthNat DEF Below
<1>4. Mapped(pg1) \in Nat /\ Mapped(pg2) \in Nat /\ Mapped(pg2) <= Mapped(pages) /\ Mapped(pages) \in Nat /\ res \in Nat
  BY <1>3, MappedMono, ConstNat
<1>5. pl \in Nat /\ Free(pg2, pl) \in Int /\ Free(pg2, pl) + pl + outside + session = Total - Eager - Mapped(pg2)
  BY <1>2, <1>4, Types, ConstNat DEF Free
<1>6. ASSUME granted, seen PROVE need + Floor + Reserve <= Free(pg2, pl) + over'
  <2>1. need # 0 /\ Governed(legacy, quote) = "admit"
    BY <1>6
  <2>2. CASE quoted
    <3>1. quote # "retry"
      <4>1. gobs = "ok"
        BY <2>2
      <4> QED BY <4>1 DEF Evaluate
    <3>2. quote = "admit"
      BY <2>1, <2>2, <3>1 DEF Governed
    <3>3. need + Floor + Reserve <= Free(pg2, pl) + excess
      <4>1. lease \in [LeaseHolders -> LeaseRec]
        BY <1>2, Types
      <4> HIDE DEF limit, res
      <4> QED BY <1>2, <1>3, <1>4, <1>5, <3>2, <4>1, QuoteFits
    <3>4. over' = excess
      BY <1>1, <1>6, <2>2
    <3> QED BY <3>3, <3>4
  <2>3. CASE ~quoted
    <3>1. look.ok
      BY <1>6, <2>3
    <3>2. mode = "observe" \/ gobs # "ok"
      BY <1>2, <2>3, ConstNat DEF TypeOK
    <3>3. legacy = "admit"
      <4>1. CASE mode = "observe"
        BY <2>1, <4>1 DEF Governed
      <4>2. CASE gobs # "ok"
        <5>1. quote \in {"fault", "retry"}
          BY <4>2 DEF Evaluate
        <5> HIDE DEF quote, legacy
        <5> QED BY <2>1, <5>1 DEF Governed
      <4> QED BY <3>2, <4>1, <4>2
    <3>4. need + Floor + Reserve <= Free(pg2, pl)
      <4> HIDE DEF class
      <4> QED BY <1>3, <1>5, <2>1, <3>1, <3>3, LegacyFits
    <3>5. over' = 0
      BY <1>1, <1>6, <2>3
    <3> QED BY <1>5, <3>4, <3>5
  <2> QED BY <2>2, <2>3
<1>7. over \in Nat /\ over' \in Nat
  BY <1>2 DEF TypeOK
<1>8. granted <=> verdict = "admit" /\ need # 0
  OBVIOUS
<1> HIDE DEF verdict, seen, granted, quoted, quote, excess
<1>9. GrantFits'
  <2>1. SUFFICES ASSUME verdict = "admit", need > 0, seen PROVE need + Floor + Reserve <= Free(pg2, pl) + over'
    BY <1>1 DEF GrantFits, Granted
  <2>2. granted
    BY <1>3, <1>8, <2>1
  <2> QED BY <1>6, <2>1, <2>2
<1>10. ASSUME ~blind' PROVE Funded(Mapped(pages'), Due', over')
  <2>1. ~blind
    BY <1>1, <1>10
  <2>2. Total - Eager - Mapped(pages) + over >= Floor + Due + Reserve
    BY <1>2, <2>1, FundedIs DEF Funded
  <2>3. session \in Nat /\ outside \in Nat /\ Due \in Nat
    BY <1>2, Types, DueNat
  <2>4. CASE verdict = "admit"
    <3>1. credit' = [credit EXCEPT ![b] = n]
      BY <1>1, <2>4
    <3>2. Due' = need
      <4>1. credit' = Credited(credit, b, n)
        BY <1>3, <3>1 DEF Credited
      <4>2. Credited(credit, b, n) \in [Banks -> Nat]
        BY <1>3 DEF Credited
      <4>3. \A c \in Banks : Credited(credit, b, n)[c] # 0 => pg2[c] = pages[c]
        BY DEF Credited, Spared
      <4>4. Debts(pg2, Credited(credit, b, n)) = Debts(pages, Credited(credit, b, n))
        BY <1>3, <4>2, <4>3, SparedDue
      <4>5. need = SumOver(Debts(pages, Credited(credit, b, n)), Banks)
        BY GrowthIs
      <4>6. Due' = SumOver(Debts(pg2, Credited(credit, b, n)), Banks)
        BY <1>1, <4>1, DueNext
      <4> QED BY <4>4, <4>5, <4>6
    <3>3. CASE need = 0
      <4>1. over' = over
        BY <1>1, <1>8, <3>3
      <4>2. Total - Eager - Mapped(pg2) + over >= Floor + need + Reserve
        BY <1>4, <1>7, <2>2, <2>3, <3>3, ConstNat
      <4> QED BY <1>1, <3>2, <4>1, <4>2 DEF Funded
    <3>4. CASE need # 0
      <4>1. granted /\ seen
        BY <1>1, <1>8, <1>10, <2>4, <3>4
      <4>2. need + Floor + Reserve <= Free(pg2, pl) + over'
        BY <1>6, <4>1
      <4>3. Total - Eager - Mapped(pg2) + over' >= Floor + need + Reserve
        BY <1>3, <1>4, <1>5, <1>7, <2>3, <4>2, ConstNat
      <4> QED BY <1>1, <3>2, <4>3 DEF Funded
    <3> QED BY <3>3, <3>4
  <2>5. CASE verdict # "admit"
    <3>1. credit' = credit /\ over' = over
      BY <1>1, <1>8, <2>5
    <3>2. Due' = Due
      <4>1. \A c \in Banks : credit[c] # 0 => pg2[c] = pages[c]
        BY DEF Spared
      <4>2. Debts(pg2, credit) = Debts(pages, credit)
        BY <1>3, <4>1, SparedDue
      <4> QED BY <1>1, <3>1, <4>2, DueNext, DueIs
    <3>3. Total - Eager - Mapped(pg2) + over >= Floor + Due + Reserve
      BY <1>4, <1>7, <2>2, <2>3, ConstNat
    <3> QED BY <1>1, <3>1, <3>2, <3>3 DEF Funded
  <2> QED BY <2>4, <2>5
<1>11. PromisesKept'
  BY <1>2, <1>10, FundedIsNext
<1> QED BY <1>9, <1>11 DEF GrantsCovered

LEMMA FaultFunded ==
  ASSUME FundInv, LedgerSound', NEW b \in Banks, Fault(b) PROVE GrantsCovered'
<1>1. /\ pages[b] < credit[b] /\ pages' = [pages EXCEPT ![b] = pages[b] + 1]
      /\ last' = NoDecision /\ UNCHANGED <<credit, blind, over>>
  BY DEF Fault
<1>2. TypeOK
  BY DEF FundInv, LedgerSound
<1> DEFINE q == pages'
           d == Debts(pages, credit)
           e == Debts(q, credit)
<1>3. pages \in [Banks -> Nat] /\ credit \in [Banks -> Nat] /\ pages[b] \in Nat /\ credit[b] \in Nat
  BY <1>2, Types
<1>4. q \in [Banks -> Nat] /\ q[b] = pages[b] + 1 /\ \A c \in Banks : c # b => pages[c] = q[c]
  BY <1>1, <1>3
<1> HIDE DEF q
<1>5. d \in [Banks -> Nat] /\ e \in [Banks -> Nat]
  BY <1>3, <1>4, DebtsNat
<1>6. d[b] = e[b] + 1 /\ \A c \in Banks : c # b => d[c] = e[c]
  BY <1>1, <1>3, <1>4 DEF Debts, Less
<1> HIDE DEF d, e
<1>7. /\ SumOver(pages, Banks) + q[b] = SumOver(q, Banks) + pages[b]
      /\ SumOver(d, Banks) + e[b] = SumOver(e, Banks) + d[b]
  BY <1>3, <1>4, <1>5, <1>6, SumUpdate
<1>8. /\ SumOver(pages, Banks) \in Nat /\ SumOver(q, Banks) \in Nat
      /\ SumOver(d, Banks) \in Nat /\ SumOver(e, Banks) \in Nat /\ e[b] \in Nat
  BY <1>3, <1>4, <1>5, SumNat
<1>9. SumOver(q, Banks) = SumOver(pages, Banks) + 1 /\ SumOver(d, Banks) = SumOver(e, Banks) + 1
  BY <1>3, <1>4, <1>6, <1>7, <1>8
<1>10. Mapped(pages') = Mapped(pages) + 1 /\ Mapped(pages) \in Nat
  BY <1>8, <1>9 DEF Mapped, q
<1>11. Due = Due' + 1 /\ Due' \in Nat
  <2>1. Due = SumOver(d, Banks)
    BY DueIs DEF d
  <2>2. Due' = SumOver(e, Banks)
    BY <1>1, DueNext DEF e, q
  <2> QED BY <1>8, <1>9, <2>1, <2>2
<1>12. over \in Nat
  BY <1>2, Types DEF TypeOK
<1>13. Funded(Mapped(pages), Due, over) => Funded(Mapped(pages'), Due', over)
  BY <1>1, <1>10, <1>11, <1>12, ConstNat DEF Funded
<1> QED BY <1>1, <1>13, QuietFunded

LEMMA RowEndFunded ==
  ASSUME FundInv, LedgerSound', NEW b \in Banks, RowEnd(b) PROVE GrantsCovered'
<1> DEFINE cr == [credit EXCEPT ![b] = 0]
<1>1. /\ credit' = cr /\ last' = NoDecision /\ UNCHANGED <<pages, blind, over>>
  BY DEF RowEnd
<1>2. TypeOK
  BY DEF FundInv, LedgerSound
<1>3. pages \in [Banks -> Nat] /\ credit \in [Banks -> Nat]
  BY <1>2, Types
<1>4. cr \in [Banks -> Nat] /\ \A c \in Banks : cr[c] <= credit[c]
  BY <1>3
<1> HIDE DEF cr
<1> DEFINE d == Debts(pages, credit)
           e == Debts(pages, cr)
<1>5. d \in [Banks -> Nat] /\ e \in [Banks -> Nat]
  BY <1>3, <1>4, DebtsNat
<1>6. \A c \in Banks : e[c] <= d[c]
  BY <1>3, <1>4 DEF Debts, Less
<1> HIDE DEF d, e
<1>7. SumOver(e, Banks) <= SumOver(d, Banks)
  BY <1>5, <1>6, SumMono
<1>8. SumOver(e, Banks) \in Nat /\ SumOver(d, Banks) \in Nat
  BY <1>5, SumNat
<1>9. Due' <= Due /\ Due' \in Nat /\ Due \in Nat
  <2>1. Due = SumOver(d, Banks) /\ Due' = SumOver(e, Banks)
    BY <1>1, DueIs, DueNext DEF d, e
  <2> QED BY <1>7, <1>8, <2>1
<1>10. over \in Nat /\ Mapped(pages) \in Nat
  BY <1>2, Types DEF TypeOK
<1>11. Funded(Mapped(pages), Due, over) => Funded(Mapped(pages'), Due', over)
  BY <1>1, <1>9, <1>10, ConstNat DEF Funded
<1> QED BY <1>1, <1>11, QuietFunded

LEMMA ReclaimFunded ==
  ASSUME FundInv, LedgerSound', NEW V \in SUBSET Banks, Reclaim(V) PROVE GrantsCovered'
<1> DEFINE q == Trimmed(pages, V)
<1>1. /\ pages' = q /\ last' = NoDecision /\ UNCHANGED <<credit, blind, over>>
      /\ \A c \in Banks : credit[c] = 0
  BY DEF Reclaim
<1>2. TypeOK
  BY DEF FundInv, LedgerSound
<1>3. pages \in [Banks -> Nat] /\ credit \in [Banks -> Nat]
  BY <1>2, Types
<1>4. Below(q, pages)
  BY <1>3, TrimmedBelow
<1> HIDE DEF q
<1>5. q \in [Banks -> Nat] /\ Mapped(q) \in Nat /\ Mapped(pages) \in Nat /\ Mapped(q) <= Mapped(pages)
  BY <1>3, <1>4, MappedMono DEF Below
<1>6. Debts(q, credit) = Debts(pages, credit)
  BY <1>1, <1>3, <1>5, SparedDue
<1>7. Due' = Due /\ Due \in Nat
  BY <1>1, <1>2, <1>6, DueIs, DueNext, DueNat
<1>8. over \in Nat
  BY <1>2, Types DEF TypeOK
<1>9. Funded(Mapped(pages), Due, over) => Funded(Mapped(pages'), Due', over)
  BY <1>1, <1>5, <1>7, <1>8, ConstNat DEF Funded
<1> QED BY <1>1, <1>9, QuietFunded

\* A step that touches neither pages nor credits keeps what is owed.
LEMMA BoxFunded ==
  ASSUME FundInv, LedgerSound', last' = NoDecision, UNCHANGED <<pages, credit, blind, over>>
  PROVE  GrantsCovered'
<1>1. Due' = Due
  BY DueIs, DueNext
<1>2. Funded(Mapped(pages), Due, over) => Funded(Mapped(pages'), Due', over)
  BY <1>1
<1> QED BY <1>2, QuietFunded

LEMMA NextFunded == ASSUME FundInv, [Next]_vars PROVE FundInv'
<1>1. LedgerSound' /\ SerialLease'
  BY NextLedger, NextSerial DEF FundInv
<1> SUFFICES GrantsCovered'
  BY <1>1 DEF FundInv
<1>2. ASSUME NEW b \in Banks, NEW n \in Lengths, Admit(b, n) \/ Extend(b, n) PROVE GrantsCovered'
  <2> DEFINE need == Growth(pages, credit, b, n)
  <2>1. PICK keep : FundCheck(b, n, keep)
    BY <1>2 DEF Admit, Extend
  <2>2. TypeOK
    BY DEF FundInv, LedgerSound
  <2>3. PICK pg1, pg2, pl, look, gobs :
          /\ Below(pg1, pages) /\ Below(pg2, pages) /\ Spared(pg2, pages, b)
          /\ pl \in {0, pool} /\ look \in Looks(pg2, pl) /\ gobs \in Results
          /\ Decide(b, n, need, pg1, pg2, pl, look, gobs)
    BY <2>1, <2>2, FundCheckTrims
  <2>4. need = Growth(pages, credit, b, n)
    OBVIOUS
  <2> HIDE DEF need
  <2> QED BY <1>1, <2>3, <2>4, DecideFunded
<1>3. ASSUME NEW b \in Banks, Fault(b) PROVE GrantsCovered'
  BY <1>1, <1>3, FaultFunded
<1>4. ASSUME NEW b \in Banks, RowEnd(b) PROVE GrantsCovered'
  BY <1>1, <1>4, RowEndFunded
<1>5. ASSUME NEW V \in SUBSET Banks, Reclaim(V) PROVE GrantsCovered'
  BY <1>1, <1>5, ReclaimFunded
<1>6. ASSUME NEW n \in Sessions, NEW obs \in Results, BuildSession(n, obs) PROVE GrantsCovered'
  <2>1. last' = NoDecision /\ UNCHANGED <<pages, credit, blind, over>>
    BY <1>6 DEF BuildSession
  <2> QED BY <1>1, <2>1, BoxFunded
<1>7. CASE FreeSession \/ PoolGrows \/ OutsideTakes \/ OutsideReturns
  <2>1. last' = NoDecision /\ UNCHANGED <<pages, credit, blind, over>>
    BY <1>7 DEF FreeSession, PoolGrows, OutsideTakes, OutsideReturns
  <2> QED BY <1>1, <2>1, BoxFunded
<1>8. CASE UNCHANGED vars
  BY <1>8 DEF vars, FundInv, GrantsCovered, GrantFits, Granted, PromisesKept, Free, Mapped, Due
<1> QED BY <1>2, <1>3, <1>4, <1>5, <1>6, <1>7, <1>8 DEF Next

LEMMA InitFunded == ASSUME Init PROVE FundInv
<1>1. LedgerSound /\ TypeOK
  BY InitLedger DEF LedgerSound
<1>2. pages \in [Banks -> Nat] /\ credit \in [Banks -> Nat] /\ over = 0 /\ last = NoDecision
      /\ \A c \in Banks : pages[c] = 0 /\ credit[c] = 0
  BY <1>1, Types DEF Init
<1>3. Mapped(pages) = 0
  BY <1>2, SumZero DEF Mapped
<1>4. Due = 0
  <2>1. Debts(pages, credit) \in [Banks -> Nat]
    BY <1>2, DebtsNat
  <2>2. \A c \in Banks : Debts(pages, credit)[c] = 0
    BY <1>2 DEF Debts, Less
  <2> QED BY <2>1, <2>2, SumZero, DueIs
<1>5. Funded(Mapped(pages), Due, over)
  BY <1>2, <1>3, <1>4, ConstNat, MemGovAssumption DEF Funded
<1>6. PromisesKept
  BY <1>1, <1>5, FundedIs
<1>7. GrantFits
  BY <1>2 DEF GrantFits, Granted, NoDecision
<1>8. SerialLease
  BY ConstNat DEF Init, SerialLease
<1> QED BY <1>1, <1>6, <1>7, <1>8 DEF FundInv, GrantsCovered

\* In either mode of the governor, whatever looks fail and whatever trims,
\* sessions and faults come between: every growth that
\* ds4_batch_cont_fund_check grants on an observation fits what is free beyond
\* the floor and the serial reserve, and what the lane owes its rows stays in
\* the box until the rows end, up to the trimmed pages that the quote of the
\* last grant took for resident (none while the governor observes); for every
\* box, reserve and session size, with the fit gate on or off.
THEOREM GrantsCoveredHolds == Spec => []GrantsCovered
<1>1. Init => FundInv
  BY InitFunded
<1>2. FundInv /\ [Next]_vars => FundInv'
  BY NextFunded
<1>3. FundInv => GrantsCovered
  BY DEF FundInv
<1> QED BY <1>1, <1>2, <1>3, PTL DEF Spec
=============================================================================
