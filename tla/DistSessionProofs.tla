-------------------------- MODULE DistSessionProofs --------------------------
(***************************************************************************)
(* The distributed session, proved for any prompts, any number of calls,   *)
(* connections and failures: every node's bookkeeping agrees with what it  *)
(* holds, and a result that is accepted was computed from the timeline it  *)
(* names on every node of the route.                                       *)
(***************************************************************************)
EXTENDS DistSession, SequenceTheorems, TLAPS

-----------------------------------------------------------------------------
(* The inductive invariant. *)

\* How far the frames of run r may reach: those of the running span are behind
\* its position, those of older runs are of an older number.
Top == IF call.pc = "span" THEN call.pos ELSE MaxLen
Behind(x, run, top) == x.run <= run /\ (x.run = run => x.pos < top)

\* The timelines of the w nodes a frame has passed.
Made(w, x) == [k \in 1..w |-> x]

\* The frames that may be on the way to worker w: they stand for the timeline
\* they name, on every node they have passed.
GoodFrames(w, run, top) ==
  {f \in Frame : /\ Len(f.pre) = f.pos /\ Append(f.pre, f.tok) \in Timelines
                 /\ f.reset <=> f.pos = 0
                 /\ f.made = Made(w, Append(f.pre, f.tok))
                 /\ Behind(f, run, top)}

\* The results that may be on the way back.
GoodResults(run, top) ==
  {m \in Result : (m.ok => m.made = All3(m.hash)) /\ Behind(m, run, top)}

LinkOK(l, run, top) ==
  /\ l \in LinkRec
  /\ l.frames[1] \in Seq(GoodFrames(1, run, top)) /\ l.frames[2] \in Seq(GoodFrames(2, run, top))
  /\ l.replies \in Seq(GoodResults(run, top))

LinksOK(lk, run, top) == \A e \in Epochs : LinkOK(lk[e], run, top)

\* While a span runs the owner's timeline is the target up to the position,
\* unless the span has yet to reset it.
SpanOK(o, c) ==
  /\ c.from <= c.acked /\ c.acked <= c.pos /\ c.pos <= Len(c.target)
  /\ c.pc = "span" =>
       (c.from = 0 /\ c.pos = 0) \/ (o.valid /\ o.toks = SubSeq(c.target, 1, c.pos))

\* A plan with the registry's generation names what is registered, and a span
\* has a connection to go over.
PlanOK(c, p, g) ==
  /\ p.gen <= g.gen /\ g.gen > 0
  /\ p.gen = g.gen => p.epoch = g.first /\ g.first # NoRoute /\ g.second
  /\ c.pc \in {"span", "failed"} => p.epoch \in Epochs

TrustOK(s) == s.hashValid /\ s.valid => s.hash = s.toks

\* What the caller may rely on between calls.
CallerOK(o, c) ==
  c.pc = "idle" =>
    /\ c.ret = 0 /\ c.how = "evaluated" => o.valid /\ o.toks = c.target /\ o.logits = All3(c.target)
    /\ c.clean /\ o.valid => o.logits = All3(o.toks)
    /\ c.how = "same" /\ c.clean => o.logits = All3(c.target)

SessionInv ==
  /\ TypeOK
  /\ LinksOK(link, call.run, Top)
  /\ SpanOK(owner, call)
  /\ PlanOK(call, plan, reg)
  /\ \A w \in Workers : TrustOK(worker[w])
  /\ CallerOK(owner, call)

-----------------------------------------------------------------------------
(* Sequences. *)

LEMMA Params ==
  /\ MaxLen \in Nat /\ MaxEpoch \in Nat /\ MaxCalls \in Nat /\ MaxFaults \in Nat /\ Window \in Nat /\ Window > 0
BY BoundsNat, WindowFits

LEMMA TimelineSeq ==
  ASSUME NEW s \in Timelines
  PROVE  s \in Seq(Tokens) /\ Len(s) \in Nat /\ Len(s) <= MaxLen /\ Len(s) \in 0..MaxLen
BY Params, LenProperties DEF Timelines

LEMMA EmptyTimeline == <<>> \in Timelines /\ Len(<<>>) = 0
BY Params, EmptySeq DEF Timelines

LEMMA PrefixFacts ==
  ASSUME NEW s \in Seq(Tokens), NEW n \in Nat, n <= Len(s)
  PROVE  /\ SubSeq(s, 1, n) \in Seq(Tokens) /\ Len(SubSeq(s, 1, n)) = n
         /\ \A i \in 1..n : SubSeq(s, 1, n)[i] = s[i]
<1>1. Len(s) \in Nat /\ \A i \in 1..n : s[i] \in Tokens
  BY LenProperties, ElementOfSeq
<1>2. /\ SubSeq(s, 1, n) \in Seq(Tokens) /\ Len(SubSeq(s, 1, n)) = (IF 1 <= n THEN n - 1 + 1 ELSE 0)
      /\ \A i \in 1..n - 1 + 1 : SubSeq(s, 1, n)[i] = s[1 + i - 1]
  BY <1>1, SubSeqProperties
<1>3. n - 1 + 1 = n /\ \A i \in 1..n : 1 + i - 1 = i
  OBVIOUS
<1> QED BY <1>2, <1>3

LEMMA PrefixWhole == ASSUME NEW s \in Seq(Tokens) PROVE SubSeq(s, 1, Len(s)) = s
<1>1. Len(s) \in Nat /\ Len(s) <= Len(s)
  BY LenProperties
<1> QED BY <1>1, PrefixFacts, SeqEqual

\* One token more.
LEMMA PrefixNext ==
  ASSUME NEW s \in Seq(Tokens), NEW n \in Nat, n < Len(s)
  PROVE  s[n + 1] \in Tokens /\ Append(SubSeq(s, 1, n), s[n + 1]) = SubSeq(s, 1, n + 1)
<1>1. Len(s) \in Nat /\ n <= Len(s) /\ n + 1 <= Len(s) /\ n + 1 \in 1..Len(s) /\ n + 1 \in Nat
  BY LenProperties
<1>2. s[n + 1] \in Tokens
  BY <1>1, ElementOfSeq
<1> DEFINE a == SubSeq(s, 1, n)
           b == SubSeq(s, 1, n + 1)
<1>3. a \in Seq(Tokens) /\ Len(a) = n /\ \A i \in 1..n : a[i] = s[i]
  BY <1>1, PrefixFacts
<1>4. b \in Seq(Tokens) /\ Len(b) = n + 1 /\ \A i \in 1..n + 1 : b[i] = s[i]
  BY <1>1, PrefixFacts
<1> HIDE DEF a, b
<1>5. /\ Append(a, s[n + 1]) \in Seq(Tokens) /\ Len(Append(a, s[n + 1])) = n + 1
      /\ \A i \in 1..n : Append(a, s[n + 1])[i] = a[i]
      /\ Append(a, s[n + 1])[n + 1] = s[n + 1]
  BY <1>2, <1>3, AppendProperties
<1>6. \A i \in 1..n + 1 : Append(a, s[n + 1])[i] = b[i]
  <2>1. \A i \in 1..n + 1 : i \in 1..n \/ i = n + 1
    OBVIOUS
  <2> QED BY <2>1, <1>3, <1>4, <1>5
<1>7. Append(a, s[n + 1]) = b
  BY <1>4, <1>5, <1>6, SeqEqual
<1> QED BY <1>2, <1>7 DEF a, b

LEMMA PrefixOfAppend ==
  ASSUME NEW s \in Seq(Tokens), NEW t \in Tokens
  PROVE  SubSeq(Append(s, t), 1, Len(s)) = s
<1>1. /\ Append(s, t) \in Seq(Tokens) /\ Len(s) \in Nat /\ Len(Append(s, t)) = Len(s) + 1
      /\ \A i \in 1..Len(s) : Append(s, t)[i] = s[i]
  BY AppendProperties, LenProperties
<1>2. Len(s) <= Len(Append(s, t))
  BY <1>1
<1>3. /\ SubSeq(Append(s, t), 1, Len(s)) \in Seq(Tokens) /\ Len(SubSeq(Append(s, t), 1, Len(s))) = Len(s)
      /\ \A i \in 1..Len(s) : SubSeq(Append(s, t), 1, Len(s))[i] = Append(s, t)[i]
  BY <1>1, <1>2, PrefixFacts
<1> QED BY <1>1, <1>3, SeqEqual

LEMMA PrefixIs ==
  ASSUME NEW s \in Seq(Tokens), NEW p \in Seq(Tokens), IsPrefix(s, p)
  PROVE  Len(s) <= Len(p) /\ s = SubSeq(p, 1, Len(s)) /\ (Len(s) = Len(p) => s = p)
<1>1. Len(s) <= Len(p) /\ SubSeq(s, 1, Len(s)) = SubSeq(p, 1, Len(s))
  BY DEF IsPrefix
<1> QED BY <1>1, PrefixWhole

LEMMA SeqMono ==
  ASSUME NEW S, NEW T, S \subseteq T, NEW s \in Seq(S)
  PROVE  s \in Seq(T)
<1>1. Len(s) \in Nat /\ s \in [1..Len(s) -> S]
  BY LenProperties
<1>2. s \in [1..Len(s) -> T]
  BY <1>1
<1> QED BY <1>1, <1>2

LEMMA Copies ==
  ASSUME NEW x
  PROVE  <<x>> = Made(1, x) /\ Append(Made(1, x), x) = Made(2, x) /\ Append(Made(2, x), x) = All3(x)
<1>1. <<x>> = [k \in 1..1 |-> x]
  OBVIOUS
<1>2. <<x, x>> = [k \in 1..2 |-> x]
  OBVIOUS
<1>3. Append(<<x>>, x) = <<x, x>> /\ Append(<<x, x>>, x) = <<x, x, x>>
  <2>1. /\ <<x>> \in Seq({x}) /\ <<x, x>> \in Seq({x}) /\ <<x, x, x>> \in Seq({x}) /\ x \in {x}
        /\ Len(<<x>>) = 1 /\ Len(<<x, x>>) = 2 /\ Len(<<x, x, x>>) = 3
    OBVIOUS
  <2>2. /\ Append(<<x>>, x) \in Seq({x}) /\ Len(Append(<<x>>, x)) = 2
        /\ Append(<<x, x>>, x) \in Seq({x}) /\ Len(Append(<<x, x>>, x)) = 3
    BY <2>1, AppendProperties
  <2>3. \A s, t \in Seq({x}) : Len(s) = Len(t) => s = t
    <3> SUFFICES ASSUME NEW s \in Seq({x}), NEW t \in Seq({x}), Len(s) = Len(t) PROVE s = t
      OBVIOUS
    <3>1. \A i \in 1..Len(s) : s[i] = t[i]
      BY ElementOfSeq
    <3> QED BY <3>1, SeqEqual
  <2> QED BY <2>1, <2>2, <2>3
<1> QED BY <1>1, <1>2, <1>3 DEF All3, Made

-----------------------------------------------------------------------------
(* Links. *)

LEMMA BehindMono ==
  ASSUME NEW x, x.run \in Nat, x.pos \in Nat, NEW r \in Nat, NEW r2 \in Nat, NEW t \in Nat, NEW t2 \in Nat,
         r < r2 \/ (r = r2 /\ t <= t2), Behind(x, r, t)
  PROVE  Behind(x, r2, t2)
BY DEF Behind

LEMMA LinkMono ==
  ASSUME NEW l, NEW r \in Nat, NEW r2 \in Nat, NEW t \in Nat, NEW t2 \in Nat,
         r < r2 \/ (r = r2 /\ t <= t2), LinkOK(l, r, t)
  PROVE  LinkOK(l, r2, t2)
<1>1. \A w : GoodFrames(w, r, t) \subseteq GoodFrames(w, r2, t2)
  <2> SUFFICES ASSUME NEW w, NEW f \in GoodFrames(w, r, t) PROVE f \in GoodFrames(w, r2, t2)
    OBVIOUS
  <2>1. f \in Frame /\ f.run \in Nat /\ f.pos \in Nat /\ Behind(f, r, t)
    BY DEF GoodFrames, Frame
  <2>2. Behind(f, r2, t2)
    BY <2>1, BehindMono
  <2> QED BY <2>2 DEF GoodFrames
<1>2. GoodResults(r, t) \subseteq GoodResults(r2, t2)
  <2> SUFFICES ASSUME NEW m \in GoodResults(r, t) PROVE m \in GoodResults(r2, t2)
    OBVIOUS
  <2>1. m \in Result /\ m.run \in Nat /\ m.pos \in Nat /\ Behind(m, r, t)
    BY DEF GoodResults, Result
  <2>2. Behind(m, r2, t2)
    BY <2>1, BehindMono
  <2> QED BY <2>2 DEF GoodResults
<1>3. l.frames[1] \in Seq(GoodFrames(1, r2, t2)) /\ l.frames[2] \in Seq(GoodFrames(2, r2, t2))
  BY <1>1, SeqMono DEF LinkOK
<1>4. l.replies \in Seq(GoodResults(r2, t2))
  BY <1>2, SeqMono DEF LinkOK
<1> QED BY <1>3, <1>4 DEF LinkOK

LEMMA LinkFields ==
  ASSUME NEW l \in LinkRec
  PROVE  /\ l.up \in BOOLEAN /\ l.frames \in [Workers -> Seq(Frame)] /\ l.replies \in Seq(Result)
         /\ \A w \in Workers : l.frames[w] \in Seq(Frame)
BY DEF LinkRec

LEMMA LinkDown ==
  ASSUME NEW l, NEW r, NEW t, LinkOK(l, r, t)
  PROVE  LinkOK([l EXCEPT !.up = FALSE], r, t)
<1>1. /\ [l EXCEPT !.up = FALSE] \in LinkRec /\ [l EXCEPT !.up = FALSE].frames = l.frames
      /\ [l EXCEPT !.up = FALSE].replies = l.replies
  BY DEF LinkOK, LinkRec
<1> QED BY <1>1 DEF LinkOK

LEMMA LinkUp ==
  ASSUME NEW l, NEW r, NEW t, LinkOK(l, r, t)
  PROVE  LinkOK([l EXCEPT !.up = TRUE], r, t)
<1>1. /\ [l EXCEPT !.up = TRUE] \in LinkRec /\ [l EXCEPT !.up = TRUE].frames = l.frames
      /\ [l EXCEPT !.up = TRUE].replies = l.replies
  BY DEF LinkOK, LinkRec
<1> QED BY <1>1 DEF LinkOK

\* The frames of one worker are replaced by good ones.
LEMMA FramesSet ==
  ASSUME NEW l, NEW r, NEW t, LinkOK(l, r, t), NEW w \in Workers, NEW q \in Seq(GoodFrames(w, r, t))
  PROVE  /\ LinkOK([l EXCEPT !.frames[w] = q], r, t)
         /\ [l EXCEPT !.frames[w] = q].up = l.up /\ [l EXCEPT !.frames[w] = q].replies = l.replies
         /\ [l EXCEPT !.frames[w] = q].frames[w] = q
         /\ \A v \in Workers : v # w => [l EXCEPT !.frames[w] = q].frames[v] = l.frames[v]
<1>1. GoodFrames(w, r, t) \subseteq Frame
  BY DEF GoodFrames
<1>2. q \in Seq(Frame)
  BY <1>1, SeqMono
<1>3. l \in LinkRec /\ l.frames \in [Workers -> Seq(Frame)]
  BY LinkFields DEF LinkOK
<1> DEFINE n == [l EXCEPT !.frames[w] = q]
           fs == [l.frames EXCEPT ![w] = q]
<1>4. fs \in [Workers -> Seq(Frame)] /\ fs[w] = q /\ \A v \in Workers : v # w => fs[v] = l.frames[v]
  BY <1>2, <1>3
<1>5. n = [l EXCEPT !.frames = fs]
  BY <1>3 DEF LinkRec
<1> HIDE DEF n, fs
<1>6. n \in LinkRec /\ n.frames = fs /\ n.up = l.up /\ n.replies = l.replies
  BY <1>3, <1>4, <1>5 DEF LinkRec
<1>7. n.frames[1] \in Seq(GoodFrames(1, r, t)) /\ n.frames[2] \in Seq(GoodFrames(2, r, t))
  <2>1. CASE w = 1
    BY <2>1, <1>4, <1>6 DEF LinkOK, Workers
  <2>2. CASE w = 2
    BY <2>2, <1>4, <1>6 DEF LinkOK, Workers
  <2> QED BY <2>1, <2>2 DEF Workers
<1>8. LinkOK(n, r, t)
  BY <1>6, <1>7 DEF LinkOK
<1> QED BY <1>4, <1>6, <1>8 DEF n

\* The replies are replaced by good ones.
LEMMA RepliesSet ==
  ASSUME NEW l, NEW r, NEW t, LinkOK(l, r, t), NEW q \in Seq(GoodResults(r, t))
  PROVE  LinkOK([l EXCEPT !.replies = q], r, t)
<1>1. q \in Seq(Result)
  <2>1. GoodResults(r, t) \subseteq Result
    BY DEF GoodResults
  <2> QED BY <2>1, SeqMono
<1>2. l \in LinkRec
  BY DEF LinkOK
<1> DEFINE n == [l EXCEPT !.replies = q]
<1>3. n \in LinkRec /\ n.frames = l.frames /\ n.replies = q
  BY <1>1, <1>2 DEF LinkRec
<1> HIDE DEF n
<1>4. LinkOK(n, r, t)
  BY <1>3 DEF LinkOK
<1> QED BY <1>4 DEF n

LEMMA FramesOf ==
  ASSUME NEW l, NEW r, NEW t, LinkOK(l, r, t), NEW w \in Workers
  PROVE  l.frames[w] \in Seq(GoodFrames(w, r, t))
BY DEF LinkOK, Workers

\* The first frame is taken off.
LEMMA FrameTaken ==
  ASSUME NEW l, NEW r, NEW t, LinkOK(l, r, t), NEW w \in Workers, l.frames[w] # <<>>
  PROVE  /\ Head(l.frames[w]) \in GoodFrames(w, r, t)
         /\ LinkOK([l EXCEPT !.frames[w] = Tail(l.frames[w])], r, t)
<1>1. Head(l.frames[w]) \in GoodFrames(w, r, t) /\ Tail(l.frames[w]) \in Seq(GoodFrames(w, r, t))
  BY FramesOf, HeadTailProperties
<1> QED BY <1>1, FramesSet

\* A result or an error goes back.
LEMMA Answered ==
  ASSUME NEW l, NEW r, NEW t, LinkOK(l, r, t), NEW f \in Frame, Append(f.pre, f.tok) \in Timelines,
         Behind(f, r, t), NEW ok \in BOOLEAN, ok => f.made = All3(Append(f.pre, f.tok))
  PROVE  LinkOK(Reply(l, f, ok), r, t)
<1> DEFINE m == [run |-> f.run, pos |-> f.pos, ok |-> ok, hash |-> Append(f.pre, f.tok), made |-> f.made]
<1>1. m \in GoodResults(r, t)
  BY DEF GoodResults, Result, Behind, Frame
<1> HIDE DEF m
<1>2. Append(l.replies, m) \in Seq(GoodResults(r, t))
  BY <1>1, AppendProperties DEF LinkOK
<1>3. LinkOK([l EXCEPT !.replies = Append(l.replies, m)], r, t)
  BY <1>2, RepliesSet
<1> QED BY <1>3 DEF Reply, m

LEMMA LinksSet ==
  ASSUME NEW lk, lk \in [Epochs -> LinkRec], NEW r, NEW t, LinksOK(lk, r, t), NEW e \in Epochs, NEW l, LinkOK(l, r, t)
  PROVE  [lk EXCEPT ![e] = l] \in [Epochs -> LinkRec] /\ LinksOK([lk EXCEPT ![e] = l], r, t)
BY DEF LinksOK, LinkOK

LEMMA LinksMono ==
  ASSUME NEW lk, NEW r \in Nat, NEW r2 \in Nat, NEW t \in Nat, NEW t2 \in Nat,
         r < r2 \/ (r = r2 /\ t <= t2), LinksOK(lk, r, t)
  PROVE  LinksOK(lk, r2, t2)
BY LinkMono DEF LinksOK

-----------------------------------------------------------------------------
(* A worker's session. *)

LEMMA FrameFacts ==
  ASSUME NEW w \in Workers, NEW r, NEW t, NEW f \in GoodFrames(w, r, t)
  PROVE  /\ f \in Frame /\ f.pre \in Timelines /\ f.tok \in Tokens /\ f.reset \in BOOLEAN /\ f.pos \in Nat
         /\ Len(f.pre) = f.pos /\ Append(f.pre, f.tok) \in Timelines /\ (f.reset <=> f.pos = 0)
         /\ f.made = Made(w, Append(f.pre, f.tok)) /\ Behind(f, r, t)
         /\ (f.reset => f.pre = <<>>)
<1>1. /\ f \in Frame /\ f.pre \in Timelines /\ f.tok \in Tokens /\ f.reset \in BOOLEAN /\ f.pos \in Nat
      /\ Len(f.pre) = f.pos /\ Append(f.pre, f.tok) \in Timelines /\ (f.reset <=> f.pos = 0)
      /\ f.made = Made(w, Append(f.pre, f.tok)) /\ Behind(f, r, t)
  BY DEF GoodFrames, Frame
<1>2. f.reset => f.pre = <<>>
  BY <1>1, TimelineSeq, EmptySeq
<1> QED BY <1>1, <1>2

\* The reset or the recomputed hash leaves a session whose hash can be trusted,
\* and one that accepts the frame holds exactly the frame's prefix.
LEMMA PreparedOK ==
  ASSUME NEW s \in Session, TrustOK(s), NEW w \in Workers, NEW r, NEW t, NEW f \in GoodFrames(w, r, t)
  PROVE  /\ Prepared(s, f) \in Session /\ TrustOK(Prepared(s, f))
         /\ Accepts(Prepared(s, f), f) => Prepared(s, f).toks = f.pre
<1> DEFINE p == Prepared(s, f)
<1>1. CASE f.reset
  <2>1. p = [toks |-> <<>>, valid |-> FALSE, hash |-> <<>>, hashValid |-> TRUE]
    BY <1>1 DEF Prepared, Fresh
  <2> QED BY <2>1, <1>1, EmptyTimeline, FrameFacts DEF Session, TrustOK
<1>2. CASE ~f.reset
  <2>1. /\ p \in Session /\ p.toks = s.toks /\ p.valid = s.valid /\ p.hashValid
        /\ p.hash = IF s.hashValid THEN s.hash ELSE s.toks
    BY <1>2 DEF Prepared, Session
  <2>2. TrustOK(p)
    BY <2>1 DEF TrustOK
  <2>3. f.pos # 0
    BY <1>2, FrameFacts
  <2> HIDE DEF p
  <2>4. Accepts(p, f) => p.toks = f.pre
    BY <2>1, <2>2, <2>3 DEF Accepts, InStep, TrustOK
  <2> QED BY <2>1, <2>2, <2>4 DEF p
<1> QED BY <1>1, <1>2

LEMMA EvaluatedOK ==
  ASSUME NEW s \in Session, TrustOK(s), NEW w \in Workers, NEW r, NEW t, NEW f \in GoodFrames(w, r, t),
         Accepts(Prepared(s, f), f)
  PROVE  /\ Evaluated(Prepared(s, f), f) \in Session /\ TrustOK(Evaluated(Prepared(s, f), f))
         /\ Evaluated(Prepared(s, f), f).toks = Append(f.pre, f.tok)
BY PreparedOK, FrameFacts DEF Evaluated, Session, TrustOK

-----------------------------------------------------------------------------
(* Workers, connections and the registry. *)

LEMMA Types ==
  ASSUME SessionInv
  PROVE  /\ owner \in OwnerRec /\ call \in CallRec /\ plan \in PlanRec /\ reg \in RegRec
         /\ link \in [Epochs -> LinkRec] /\ worker \in [Workers -> Session]
         /\ serving \in ServingRec /\ faults \in Nat /\ call.run \in Nat /\ Top \in Nat
         /\ reg.gen \in Nat /\ plan.gen \in Nat /\ call.pos \in 0..MaxLen
         /\ \A e \in Epochs : LinkOK(link[e], call.run, Top)
         /\ \A w \in Workers : worker[w] \in Session /\ TrustOK(worker[w])
BY Params DEF SessionInv, TypeOK, CallRec, Top, LinksOK, RegRec, PlanRec

LEMMA Counts ==
  ASSUME SessionInv
  PROVE  /\ faults \in Nat /\ faults + 1 \in Nat /\ reg \in RegRec /\ reg.gen + 1 \in Nat
         /\ serving \in ServingRec /\ serving.next + 1 \in Nat
<1>1. reg \in RegRec /\ serving \in ServingRec /\ faults \in Nat
  BY DEF SessionInv, TypeOK
<1>2. reg.gen \in Nat /\ serving.next \in Nat
  BY <1>1 DEF RegRec, ServingRec
<1> QED BY <1>1, <1>2

LEMMA RouteStep ==
  ASSUME SessionInv, UNCHANGED <<owner, call, plan>>, reg' \in RegRec, PlanOK(call, plan, reg'),
         link' \in [Epochs -> LinkRec], LinksOK(link', call.run, Top),
         worker' \in [Workers -> Session], \A w \in Workers : TrustOK(worker'[w]),
         serving' \in ServingRec, faults' \in Nat
  PROVE  SessionInv'
<1>1. Top' = Top
  BY DEF Top
<1>2. TypeOK'
  BY DEF SessionInv, TypeOK
<1>3. LinksOK(link', call'.run, Top')
  BY <1>1
<1>4. SpanOK(owner', call') /\ CallerOK(owner', call') /\ PlanOK(call', plan', reg')
  BY DEF SessionInv, SpanOK, CallerOK, PlanOK
<1> QED BY <1>2, <1>3, <1>4 DEF SessionInv, LinksOK, LinkOK, SpanOK, CallerOK, PlanOK, TrustOK, Top

\* One link and one worker change, the registry does not.
LEMMA WorkStep ==
  ASSUME SessionInv, UNCHANGED <<owner, call, plan, reg, serving>>, faults' \in Nat,
         NEW e \in Epochs, NEW l, LinkOK(l, call.run, Top), link' = [link EXCEPT ![e] = l],
         NEW w \in Workers, NEW s \in Session, TrustOK(s), worker' = [worker EXCEPT ![w] = s]
  PROVE  SessionInv'
<1>1. link' \in [Epochs -> LinkRec] /\ LinksOK(link', call.run, Top)
  BY Types, LinksSet DEF SessionInv
<1>2. worker' \in [Workers -> Session] /\ \A v \in Workers : TrustOK(worker'[v])
  BY Types
<1> QED BY <1>1, <1>2, Types, RouteStep DEF SessionInv

LEMMA WorkInv == ASSUME SessionInv, NEW e \in Epochs, NEW w \in Workers, Work(e, w) PROVE SessionInv'
<1> DEFINE f == Head(link[e].frames[w])
           s == Prepared(worker[w], f)
           g == [f EXCEPT !.made = Append(f.made, Evaluated(s, f).toks)]
           l == [link[e] EXCEPT !.frames[w] = Tail(link[e].frames[w])]
<1>1. link[e].frames[w] # <<>> /\ Accepts(s, f)
  BY DEF Work
<1>2. f \in GoodFrames(w, call.run, Top) /\ LinkOK(l, call.run, Top)
  BY <1>1, Types, FrameTaken
<1>3. /\ Evaluated(s, f) \in Session /\ TrustOK(Evaluated(s, f)) /\ Evaluated(s, f).toks = Append(f.pre, f.tok)
  <2>1. worker[w] \in Session /\ TrustOK(worker[w])
    BY Types
  <2> HIDE DEF f
  <2> QED BY <2>1, <1>1, <1>2, EvaluatedOK
<1>4. worker' = [worker EXCEPT ![w] = Evaluated(s, f)]
  BY DEF Work
<1>5. UNCHANGED <<owner, call, plan, reg, serving, faults>>
  BY DEF Work
<1>6. link' = [link EXCEPT ![e] = IF w = 1 THEN [l EXCEPT !.frames[2] = Append(l.frames[2], g)] ELSE Reply(l, g, TRUE)]
  BY DEF Work
<1>7. /\ f \in Frame /\ f.made = Made(w, Append(f.pre, f.tok)) /\ Append(f.pre, f.tok) \in Timelines
      /\ Behind(f, call.run, Top) /\ Len(f.pre) = f.pos /\ (f.reset <=> f.pos = 0)
  BY <1>2, FrameFacts
<1> HIDE DEF l, f, s
<1>8. f.made \in Seq(Timelines) /\ Append(f.made, Append(f.pre, f.tok)) \in Seq(Timelines)
  BY <1>7, AppendProperties DEF Frame
<1>9. /\ g \in Frame /\ g.pre = f.pre /\ g.tok = f.tok /\ g.pos = f.pos /\ g.run = f.run /\ g.reset = f.reset
      /\ g.made = Append(f.made, Append(f.pre, f.tok))
  BY <1>3, <1>7, <1>8 DEF Frame
<1>10. Behind(g, call.run, Top)
  BY <1>7, <1>9 DEF Behind
<1>11. CASE w = 1
  <2>1. g.made = Made(2, Append(f.pre, f.tok))
    BY <1>11, <1>7, <1>9, Copies
  <2>2. g \in GoodFrames(2, call.run, Top)
    BY <2>1, <1>7, <1>9, <1>10 DEF GoodFrames
  <2>3. Append(l.frames[2], g) \in Seq(GoodFrames(2, call.run, Top))
    BY <2>2, <1>2, AppendProperties DEF LinkOK
  <2>4. LinkOK([l EXCEPT !.frames[2] = Append(l.frames[2], g)], call.run, Top)
    BY <2>3, <1>2, FramesSet DEF Workers
  <2>5. link' = [link EXCEPT ![e] = [l EXCEPT !.frames[2] = Append(l.frames[2], g)]]
    BY <1>6, <1>11
  <2> QED BY <2>4, <2>5, <1>3, <1>4, <1>5, Types, WorkStep
<1>12. CASE w = 2
  <2>1. g.made = All3(Append(g.pre, g.tok))
    BY <1>12, <1>7, <1>9, Copies
  <2>2. LinkOK(Reply(l, g, TRUE), call.run, Top)
    BY <2>1, <1>2, <1>7, <1>9, <1>10, Answered
  <2>3. link' = [link EXCEPT ![e] = Reply(l, g, TRUE)]
    BY <1>6, <1>12
  <2> QED BY <2>2, <2>3, <1>3, <1>4, <1>5, Types, WorkStep
<1> QED BY <1>11, <1>12 DEF Workers

\* What the refusing actions share: the first frame is off, an error goes back.
LEMMA RefusalLink ==
  ASSUME SessionInv, NEW e \in Epochs, NEW w \in Workers, link[e].frames[w] # <<>>
  PROVE  /\ Head(link[e].frames[w]) \in GoodFrames(w, call.run, Top)
         /\ LinkOK(Reply([link[e] EXCEPT !.frames[w] = Tail(link[e].frames[w])], Head(link[e].frames[w]), FALSE), call.run, Top)
         /\ worker[w] \in Session /\ TrustOK(worker[w])
         /\ Prepared(worker[w], Head(link[e].frames[w])) \in Session
         /\ TrustOK(Prepared(worker[w], Head(link[e].frames[w])))
<1> DEFINE f == Head(link[e].frames[w])
           l == [link[e] EXCEPT !.frames[w] = Tail(link[e].frames[w])]
<1>1. f \in GoodFrames(w, call.run, Top) /\ LinkOK(l, call.run, Top)
  BY Types, FrameTaken
<1>2. worker[w] \in Session /\ TrustOK(worker[w])
  BY Types
<1> HIDE DEF f, l
<1>3. f \in Frame /\ Append(f.pre, f.tok) \in Timelines /\ Behind(f, call.run, Top)
  BY <1>1, FrameFacts
<1>4. LinkOK(Reply(l, f, FALSE), call.run, Top)
  BY <1>1, <1>3, Answered
<1>5. Prepared(worker[w], f) \in Session /\ TrustOK(Prepared(worker[w], f))
  BY <1>1, <1>2, PreparedOK
<1> QED BY <1>1, <1>2, <1>4, <1>5 DEF f, l

LEMMA WorkRefusedInv == ASSUME SessionInv, NEW e \in Epochs, NEW w \in Workers, WorkRefused(e, w) PROVE SessionInv'
<1> DEFINE f == Head(link[e].frames[w])
           s == Prepared(worker[w], f)
           l == Reply([link[e] EXCEPT !.frames[w] = Tail(link[e].frames[w])], f, FALSE)
<1>1. /\ link[e].frames[w] # <<>> /\ worker' = [worker EXCEPT ![w] = Refused(s, f)] /\ link' = [link EXCEPT ![e] = l]
      /\ UNCHANGED <<owner, call, plan, reg, serving, faults>>
  BY DEF WorkRefused
<1>2. LinkOK(l, call.run, Top) /\ s \in Session /\ TrustOK(s)
  BY <1>1, RefusalLink
<1> HIDE DEF f, s, l
<1>3. Refused(s, f) \in Session /\ TrustOK(Refused(s, f))
  BY <1>2 DEF Refused, Session, TrustOK
<1> QED BY <1>1, <1>2, <1>3, Types, WorkStep

LEMMA WorkFailsInv == ASSUME SessionInv, NEW e \in Epochs, NEW w \in Workers, WorkFails(e, w) PROVE SessionInv'
<1> DEFINE f == Head(link[e].frames[w])
           s == Prepared(worker[w], f)
           l == Reply([link[e] EXCEPT !.frames[w] = Tail(link[e].frames[w])], f, FALSE)
           z == [worker[w] EXCEPT !.toks = <<>>, !.valid = FALSE]
<1>1. /\ link[e].frames[w] # <<>> /\ link' = [link EXCEPT ![e] = l] /\ faults' = faults + 1
      /\ UNCHANGED <<owner, call, plan, reg, serving>>
  BY DEF WorkFails, Fault
<1>2. \/ worker' = [worker EXCEPT ![w] = EvalBroken(s)]
      \/ worker' = [worker EXCEPT ![w].toks = <<>>, ![w].valid = FALSE]
      \/ worker' = worker
  BY DEF WorkFails
<1>3. /\ LinkOK(l, call.run, Top) /\ s \in Session /\ TrustOK(s) /\ worker[w] \in Session /\ TrustOK(worker[w])
      /\ faults' \in Nat /\ worker \in [Workers -> Session]
  <2>1. faults' \in Nat
    BY <1>1, Counts
  <2>2. worker \in [Workers -> Session]
    BY Types
  <2> QED BY <1>1, <2>1, <2>2, RefusalLink
<1> HIDE DEF f, s, l
<1>4. EvalBroken(s) \in Session /\ TrustOK(EvalBroken(s))
  BY <1>3 DEF EvalBroken, Session, TrustOK
<1>5. z \in Session /\ TrustOK(z)
  BY <1>3, EmptyTimeline DEF Session, TrustOK
<1>6. [worker EXCEPT ![w].toks = <<>>, ![w].valid = FALSE] = [worker EXCEPT ![w] = z]
  BY <1>3
<1>7. worker = [worker EXCEPT ![w] = worker[w]]
  BY <1>3
<1> HIDE DEF z
<1>8. CASE worker' = [worker EXCEPT ![w] = EvalBroken(s)]
  BY <1>1, <1>3, <1>4, <1>8, WorkStep
<1>9. CASE worker' = [worker EXCEPT ![w] = z]
  BY <1>1, <1>3, <1>5, <1>9, WorkStep
<1>10. CASE worker' = [worker EXCEPT ![w] = worker[w]]
  BY <1>1, <1>3, <1>10, WorkStep
<1> QED BY <1>2, <1>6, <1>7, <1>8, <1>9, <1>10

LEMMA ForwardFailsInv == ASSUME SessionInv, NEW e \in Epochs, ForwardFails(e) PROVE SessionInv'
<1> DEFINE f == Head(link[e].frames[1])
           s == Prepared(worker[1], f)
           l == Reply([link[e] EXCEPT !.frames[1] = Tail(link[e].frames[1])], f, FALSE)
<1>0. 1 \in Workers
  BY DEF Workers
<1>1. /\ link[e].frames[1] # <<>> /\ Accepts(s, f) /\ link' = [link EXCEPT ![e] = [l EXCEPT !.up = FALSE]]
      /\ faults' = faults + 1 /\ worker' = [worker EXCEPT ![1] = Evaluated(s, f)]
      /\ UNCHANGED <<owner, call, plan, reg, serving>>
  BY DEF ForwardFails, Fault
<1>2. /\ LinkOK(l, call.run, Top) /\ f \in GoodFrames(1, call.run, Top) /\ worker[1] \in Session /\ TrustOK(worker[1])
      /\ faults' \in Nat
  <2>1. faults' \in Nat
    BY <1>1, Counts
  <2> QED BY <1>0, <1>1, <2>1, RefusalLink
<1> HIDE DEF f, l
<1>3. Evaluated(s, f) \in Session /\ TrustOK(Evaluated(s, f))
  BY <1>0, <1>1, <1>2, EvaluatedOK
<1>4. LinkOK([l EXCEPT !.up = FALSE], call.run, Top)
  BY <1>2, LinkDown
<1> HIDE DEF s
<1> QED BY <1>0, <1>1, <1>2, <1>3, <1>4, WorkStep

\* Only links change, and each of them as a good link may.
LEMMA LinkStep ==
  ASSUME SessionInv, UNCHANGED <<owner, call, plan, reg, worker>>, serving' \in ServingRec, faults' \in Nat,
         NEW e \in Epochs, NEW l, LinkOK(l, call.run, Top), link' = [link EXCEPT ![e] = l]
  PROVE  SessionInv'
<1>1. link' \in [Epochs -> LinkRec] /\ LinksOK(link', call.run, Top)
  BY Types, LinksSet DEF SessionInv
<1> QED BY <1>1, Types, RouteStep DEF SessionInv

LEMMA LinkBreaksInv == ASSUME SessionInv, NEW e \in Epochs, LinkBreaks(e) PROVE SessionInv'
<1>1. /\ link' = [link EXCEPT ![e].up = FALSE] /\ UNCHANGED <<owner, call, plan, reg, worker, serving>> /\ faults' = faults + 1
  BY DEF LinkBreaks, Fault
<1>2. LinkOK([link[e] EXCEPT !.up = FALSE], call.run, Top)
  BY Types, LinkDown
<1>3. link' = [link EXCEPT ![e] = [link[e] EXCEPT !.up = FALSE]]
  BY <1>1
<1>4. faults' \in Nat /\ serving' \in ServingRec
  BY <1>1, Counts
<1> QED BY <1>1, <1>2, <1>3, <1>4, LinkStep

LEMMA DropStaleInv == ASSUME SessionInv, NEW e \in Epochs, DropStale(e) PROVE SessionInv'
<1>0. 2 \in Workers /\ <<>> \in Seq(GoodFrames(2, call.run, Top))
  BY EmptySeq DEF Workers
<1>1. /\ link' = [link EXCEPT ![e].frames[2] = <<>>] /\ UNCHANGED <<owner, call, plan, reg, worker, serving, faults>>
  BY DEF DropStale
<1>2. LinkOK([link[e] EXCEPT !.frames[2] = <<>>], call.run, Top)
  BY <1>0, Types, FramesSet
<1>3. link' = [link EXCEPT ![e] = [link[e] EXCEPT !.frames[2] = <<>>]]
  BY <1>1
<1> QED BY <1>1, <1>2, <1>3, Types, LinkStep

LEMMA FirstLeavesInv == ASSUME SessionInv, FirstLeaves PROVE SessionInv'
<1> DEFINE e == serving.first
           l == [link[e] EXCEPT !.frames[1] = <<>>]
<1>0. 1 \in Workers /\ <<>> \in Seq(GoodFrames(1, call.run, Top)) /\ e \in Epochs /\ serving' \in ServingRec
  BY EmptySeq, Types DEF Workers, FirstLeaves, ServingRec
<1>1. /\ link' = [link EXCEPT ![e].frames[1] = <<>>] /\ UNCHANGED <<owner, call, plan, reg, faults>>
      /\ worker' = [worker EXCEPT ![1] = Fresh]
  BY DEF FirstLeaves
<1>2. LinkOK(l, call.run, Top)
  BY <1>0, Types, FramesSet
<1>3. link' = [link EXCEPT ![e] = l]
  BY <1>1
<1>4. Fresh \in Session /\ TrustOK(Fresh)
  BY EmptyTimeline DEF Fresh, Session, TrustOK
<1> HIDE DEF l, e
<1>5. link' \in [Epochs -> LinkRec] /\ LinksOK(link', call.run, Top)
  BY <1>0, <1>2, <1>3, Types, LinksSet DEF SessionInv
<1>6. worker' \in [Workers -> Session] /\ \A v \in Workers : TrustOK(worker'[v])
  BY <1>0, <1>1, <1>4, Types
<1> QED BY <1>0, <1>1, <1>5, <1>6, Types, RouteStep DEF SessionInv

LEMMA SecondLeavesInv == ASSUME SessionInv, SecondLeaves PROVE SessionInv'
<1>1. /\ UNCHANGED <<owner, call, plan, reg, link>> /\ worker' = [worker EXCEPT ![2] = Fresh]
      /\ (faults' = faults + 1 \/ faults' = faults)
  BY DEF SecondLeaves, Fault
<1>2. serving' \in ServingRec /\ faults' \in Nat
  BY <1>1, Counts DEF SecondLeaves, ServingRec
<1>3. Fresh \in Session /\ TrustOK(Fresh)
  BY EmptyTimeline DEF Fresh, Session, TrustOK
<1>4. worker' \in [Workers -> Session] /\ \A v \in Workers : TrustOK(worker'[v])
  BY <1>1, <1>3, Types
<1> QED BY <1>1, <1>2, <1>4, Types, RouteStep DEF SessionInv

\* The registry moves on: no plan has its generation yet.
LEMMA NewGeneration ==
  ASSUME SessionInv, NEW g \in RegRec, g.gen = reg.gen + 1 PROVE PlanOK(call, plan, g)
BY Types DEF SessionInv, PlanOK

LEMMA FirstConnectsInv == ASSUME SessionInv, FirstConnects PROVE SessionInv'
<1> DEFINE e == serving.next
<1>1. /\ e \in Epochs /\ link' = [link EXCEPT ![e].up = TRUE] /\ UNCHANGED <<owner, call, plan, worker, faults>>
      /\ reg' = [reg EXCEPT !.first = e, !.gen = reg.gen + 1]
      /\ serving' = [serving EXCEPT !.first = e, !.next = serving.next + 1]
  BY DEF FirstConnects
<1>2. serving' \in ServingRec
  BY <1>1, Counts DEF ServingRec
<1>3. reg' \in RegRec /\ reg'.gen = reg.gen + 1
  BY <1>1, Counts DEF RegRec
<1> HIDE DEF e
<1>4. LinkOK([link[e] EXCEPT !.up = TRUE], call.run, Top)
  BY <1>1, Types, LinkUp
<1>5. link' = [link EXCEPT ![e] = [link[e] EXCEPT !.up = TRUE]]
  BY <1>1
<1>6. link' \in [Epochs -> LinkRec] /\ LinksOK(link', call.run, Top)
  <2>1. link \in [Epochs -> LinkRec] /\ LinksOK(link, call.run, Top)
    BY Types DEF SessionInv
  <2>2. e \in Epochs
    BY <1>1
  <2> DEFINE l == [link[e] EXCEPT !.up = TRUE]
  <2>3. LinkOK(l, call.run, Top) /\ link' = [link EXCEPT ![e] = l]
    BY <1>4, <1>5
  <2> HIDE DEF l
  <2> QED BY <2>1, <2>2, <2>3, LinksSet
<1>7. PlanOK(call, plan, reg')
  BY <1>3, NewGeneration
<1>8. worker' \in [Workers -> Session] /\ (\A w \in Workers : TrustOK(worker'[w])) /\ faults' \in Nat
  BY <1>1, Types
<1> QED BY <1>1, <1>2, <1>3, <1>6, <1>7, <1>8, RouteStep

LEMMA RegistryInv == ASSUME SessionInv, SecondConnects \/ Unregister PROVE SessionInv'
<1>1. /\ UNCHANGED <<owner, call, plan, link, worker, faults>> /\ serving' \in ServingRec
  BY Counts DEF SecondConnects, Unregister, ServingRec
<1>2. reg' \in RegRec /\ reg'.gen = reg.gen + 1
  <2>1. \/ reg' = [reg EXCEPT !.second = TRUE, !.gen = reg.gen + 1]
        \/ reg' = [reg EXCEPT !.first = NoRoute, !.gen = reg.gen + 1]
        \/ reg' = [reg EXCEPT !.second = FALSE, !.gen = reg.gen + 1]
    BY DEF SecondConnects, Unregister
  <2> QED BY <2>1, Counts DEF RegRec
<1>3. PlanOK(call, plan, reg')
  BY <1>2, NewGeneration
<1> QED BY <1>1, <1>2, <1>3, Types, RouteStep DEF SessionInv

-----------------------------------------------------------------------------
(* The calls. *)

LEMMA CallStep ==
  ASSUME SessionInv, UNCHANGED <<worker, serving>>, faults' \in Nat, reg' \in RegRec,
         owner' \in OwnerRec, call' \in CallRec, plan' \in PlanRec, link' \in [Epochs -> LinkRec],
         LinksOK(link', call'.run, IF call'.pc = "span" THEN call'.pos ELSE MaxLen),
         SpanOK(owner', call'), PlanOK(call', plan', reg'), CallerOK(owner', call')
  PROVE  SessionInv'
<1>1. Top' = IF call'.pc = "span" THEN call'.pos ELSE MaxLen
  BY DEF Top
<1>2. LinksOK(link', call'.run, Top')
  BY <1>1
<1>3. TypeOK' /\ \A w \in Workers : TrustOK(worker'[w])
  BY DEF SessionInv, TypeOK
<1> QED BY <1>2, <1>3 DEF SessionInv, LinksOK, LinkOK, SpanOK, CallerOK, PlanOK, TrustOK, Top

LEMMA CallFields ==
  ASSUME NEW c \in CallRec
  PROVE  /\ c.pc \in {"idle", "span", "failed", "reroute"} /\ c.target \in Timelines /\ c.from \in Nat /\ c.pos \in Nat
         /\ c.acked \in Nat /\ c.pos <= MaxLen /\ c.piped \in BOOLEAN /\ c.replay \in BOOLEAN /\ c.run \in Nat /\ c.run + 1 \in Nat
         /\ c.rc \in 0..2 /\ c.ret \in 0..1 /\ c.clean \in BOOLEAN /\ c.calls \in Nat /\ c.calls + 1 \in Nat
<1>1. c.run \in Nat /\ c.calls \in Nat
  BY DEF CallRec
<1>2. c.run + 1 \in Nat /\ c.calls + 1 \in Nat
  BY <1>1
<1> QED BY <1>1, <1>2, Params DEF CallRec

LEMMA BeginFields ==
  ASSUME NEW c \in CallRec, NEW from \in 0..MaxLen, NEW replay \in BOOLEAN
  PROVE  /\ BeginSpan(c, from, replay) \in CallRec
         /\ BeginSpan(c, from, replay).pc = "span" /\ BeginSpan(c, from, replay).target = c.target
         /\ BeginSpan(c, from, replay).from = from /\ BeginSpan(c, from, replay).pos = from
         /\ BeginSpan(c, from, replay).acked = from /\ BeginSpan(c, from, replay).run = c.run + 1
<1>1. c.run + 1 \in Nat /\ Piped(from, c.target) \in BOOLEAN /\ 0 \in 0..2
  BY CallFields DEF Piped
<1> QED BY <1>1 DEF BeginSpan, CallRec

LEMMA ReturnFields ==
  ASSUME NEW c \in CallRec, NEW ret \in 0..1, NEW how \in {"same", "route", "evaluated", "failed"}
  PROVE  /\ Return(c, ret, how) \in CallRec
         /\ Return(c, ret, how).pc = "idle" /\ Return(c, ret, how).target = c.target
         /\ Return(c, ret, how).from = 0 /\ Return(c, ret, how).pos = 0 /\ Return(c, ret, how).acked = 0
         /\ Return(c, ret, how).run = c.run /\ Return(c, ret, how).ret = ret /\ Return(c, ret, how).how = how
         /\ Return(c, ret, how).clean = IF how \in {"same", "route"} THEN c.clean ELSE ret = 0
<1>1. (how \in {"same", "route"} => c.clean \in BOOLEAN) /\ (ret = 0) \in BOOLEAN
  BY CallFields
<1>2. 0 \in 0..MaxLen /\ 0 \in 0..2
  BY Params
<1>3. CASE how \in {"same", "route"}
  BY <1>1, <1>2, <1>3 DEF Return, CallRec
<1>4. CASE how \notin {"same", "route"}
  BY <1>1, <1>2, <1>4 DEF Return, CallRec
<1> QED BY <1>3, <1>4

\* A span starts: its run is new, so that no frame on any link is of it.
LEMMA Begins ==
  ASSUME SessionInv, UNCHANGED <<owner, reg, link, worker, serving, faults>>, NEW c \in CallRec, c.run = call.run,
         NEW from \in 0..MaxLen, NEW replay \in BOOLEAN, call' = BeginSpan(c, from, replay),
         from <= Len(c.target), from = 0 \/ (owner.valid /\ owner.toks = SubSeq(c.target, 1, from)),
         plan' \in PlanRec, PlanOK(call', plan', reg)
  PROVE  SessionInv'
<1>1. /\ call' \in CallRec /\ call'.pc = "span" /\ call'.target = c.target /\ call'.from = from /\ call'.pos = from
      /\ call'.acked = from /\ call'.run = call.run + 1
  BY BeginFields
<1>2. LinksOK(link, call.run + 1, from)
  <2>1. LinksOK(link, call.run, Top) /\ call.run \in Nat /\ Top \in Nat
    BY Types DEF SessionInv
  <2>2. call.run + 1 \in Nat /\ call.run < call.run + 1 /\ from \in Nat
    BY <2>1, Params
  <2> QED BY <2>1, <2>2, LinksMono
<1>3. SpanOK(owner', call')
  BY <1>1, Params DEF SpanOK
<1>4. CallerOK(owner', call') /\ PlanOK(call', plan', reg')
  BY <1>1 DEF CallerOK, PlanOK
<1>5. /\ owner' \in OwnerRec /\ link' \in [Epochs -> LinkRec] /\ faults' \in Nat /\ reg' \in RegRec
      /\ LinksOK(link', call'.run, IF call'.pc = "span" THEN call'.pos ELSE MaxLen)
  BY <1>1, <1>2, Types
<1> QED BY <1>1, <1>3, <1>4, <1>5, CallStep

\* The call is over, or it has failed: the frames of its run stay behind.
LEMMA Ends ==
  ASSUME SessionInv, UNCHANGED <<worker, serving>>, faults' \in Nat, reg' \in RegRec,
         link' \in [Epochs -> LinkRec], LinksOK(link', call.run, Top), owner' \in OwnerRec,
         call' \in CallRec, call'.run = call.run, call'.pc # "span", plan' \in PlanRec,
         call'.from <= call'.acked, call'.acked <= call'.pos, call'.pos <= Len(call'.target),
         PlanOK(call', plan', reg'), CallerOK(owner', call')
  PROVE  SessionInv'
<1>1. LinksOK(link', call.run, MaxLen)
  <2>1. call.run \in Nat /\ Top \in Nat /\ Top <= MaxLen
    BY Types, CallFields, Params DEF Top
  <2> QED BY <2>1, Params, LinksMono
<1>2. SpanOK(owner', call')
  BY DEF SpanOK
<1> QED BY <1>1, <1>2, CallStep

\* The plan a call goes on with, if any.
LEMMA RegPositive == ASSUME SessionInv PROVE reg \in RegRec /\ reg.gen > 0 /\ reg.gen \in Nat
BY Types DEF SessionInv, PlanOK

LEMMA NewPlanOK ==
  ASSUME SessionInv, RouteExists
  PROVE  NewPlan \in PlanRec /\ NewPlan.epoch \in Epochs /\ \A c : PlanOK(c, NewPlan, reg)
<1>1. reg \in RegRec /\ reg.gen > 0 /\ reg.gen \in Nat
  BY RegPositive
<1>2. reg.first # NoRoute /\ reg.second /\ reg.first \in Epochs /\ reg.gen <= reg.gen
  BY <1>1 DEF RouteExists, RegRec
<1>3. NewPlan \in PlanRec
  BY <1>1, <1>2 DEF NewPlan, PlanRec
<1>4. NewPlan.epoch = reg.first /\ NewPlan.gen = reg.gen
  BY DEF NewPlan
<1>5. \A c : PlanOK(c, NewPlan, reg)
  BY <1>1, <1>2, <1>4, Zenon DEF PlanOK
<1> QED BY <1>2, <1>3, <1>4, <1>5

LEMMA Planned ==
  ASSUME SessionInv, PlanCurrent \/ RouteExists, NEW p, p = IF PlanCurrent THEN plan ELSE NewPlan
  PROVE  p \in PlanRec /\ p.epoch \in Epochs /\ \A c : PlanOK(c, p, reg)
<1>1. /\ plan \in PlanRec /\ reg \in RegRec /\ reg.gen \in Nat /\ plan.gen \in Nat /\ plan.gen <= reg.gen /\ reg.gen > 0
      /\ plan.gen = reg.gen => plan.epoch = reg.first /\ reg.first # NoRoute /\ reg.second
  BY Types DEF SessionInv, PlanOK
<1>2. CASE PlanCurrent
  BY <1>1, <1>2 DEF PlanCurrent, PlanOK, PlanRec
<1>3. CASE ~PlanCurrent
  <2>1. p = NewPlan /\ RouteExists
    BY <1>3
  <2> QED BY <2>1, NewPlanOK, Zenon
<1> QED BY <1>2, <1>3

LEMMA Unplanned ==
  ASSUME SessionInv, NEW c, c.pc \notin {"span", "failed"}, NEW g \in RegRec, g.gen > 0
  PROVE  NoPlan \in PlanRec /\ PlanOK(c, NoPlan, g)
<1>1. g.gen \in Nat
  BY DEF RegRec
<1> QED BY <1>1 DEF NoPlan, PlanOK, PlanRec

LEMMA Called ==
  ASSUME SessionInv, NEW p \in Timelines, NEW c, c = [call EXCEPT !.target = p, !.calls = @ + 1]
  PROVE  c \in CallRec /\ c.target = p /\ c.run = call.run /\ c.clean = call.clean
<1>1. call \in CallRec /\ call.calls + 1 \in Nat
  BY Types, CallFields
<1> QED BY <1>1 DEF CallRec

\* A call that ends at once, without a route or with nothing to do.
LEMMA EndsAtOnce ==
  ASSUME SessionInv, UNCHANGED <<owner, reg, link, worker, serving, faults>>, call.pc = "idle",
         NEW c \in CallRec, c.run = call.run, c.clean = call.clean, NEW ret \in 0..1, NEW how \in {"same", "route"},
         call' = Return(c, ret, how), plan' \in PlanRec, PlanOK(call', plan', reg),
         how = "same" => owner.valid /\ c.target = owner.toks
  PROVE  SessionInv'
<1>1. /\ call' \in CallRec /\ call'.pc = "idle" /\ call'.target = c.target /\ call'.from = 0 /\ call'.pos = 0 /\ call'.acked = 0
      /\ call'.run = call.run /\ call'.ret = ret /\ call'.how = how /\ call'.clean = call.clean
  BY ReturnFields
<1>2. c.target \in Timelines /\ 0 <= Len(c.target)
  BY CallFields, TimelineSeq
<1>3. CallerOK(owner', call')
  BY <1>1 DEF SessionInv, CallerOK
<1>4. /\ faults' \in Nat /\ reg' \in RegRec /\ link' \in [Epochs -> LinkRec] /\ LinksOK(link', call.run, Top) /\ owner' \in OwnerRec
  BY Types DEF SessionInv
<1>5. PlanOK(call', plan', reg') /\ 0 <= 0
  OBVIOUS
<1> QED BY <1>1, <1>2, <1>3, <1>4, <1>5, Ends

LEMMA CallSyncInv == ASSUME SessionInv, NEW p \in Prompts, CallSync(p) PROVE SessionInv'
<1> DEFINE c == [call EXCEPT !.target = p, !.calls = @ + 1]
<1>1. p \in Timelines /\ p \in Seq(Tokens) /\ Len(p) \in Nat
  BY PromptsFit, Params, LenProperties DEF Timelines
<1>2. c \in CallRec /\ c.target = p /\ c.run = call.run /\ c.clean = call.clean
  BY <1>1, Called
<1>3. UNCHANGED <<owner, reg, link, worker, serving, faults>> /\ call.pc = "idle"
  BY DEF CallSync
<1>4. owner.toks \in Timelines /\ owner.toks \in Seq(Tokens) /\ Len(owner.toks) \in 0..MaxLen
  BY Types, TimelineSeq DEF OwnerRec
<1>5. CASE ~PlanCurrent /\ ~RouteExists
  <2>1. plan' = NoPlan /\ call' = Return(c, 1, "route")
    BY <1>5 DEF CallSync
  <2> HIDE DEF c
  <2>2. call'.pc = "idle"
    BY <2>1, <1>2, ReturnFields
  <2>3. plan' \in PlanRec /\ PlanOK(call', plan', reg)
    BY <2>1, <2>2, RegPositive, Unplanned
  <2> QED BY <1>2, <1>3, <2>1, <2>3, EndsAtOnce
<1>6. CASE PlanCurrent \/ RouteExists
  <2>1. /\ plan' = IF PlanCurrent THEN plan ELSE NewPlan
        /\ call' = IF Extends(p) /\ Len(owner.toks) = Len(p) THEN Return(c, 0, "same")
                   ELSE BeginSpan(c, IF Extends(p) THEN Len(owner.toks) ELSE 0, FALSE)
    BY <1>6 DEF CallSync
  <2>2. plan' \in PlanRec /\ PlanOK(call', plan', reg)
    BY <2>1, <1>6, Planned
  <2>3. Extends(p) => /\ owner.valid /\ Len(owner.toks) <= Len(p) /\ owner.toks = SubSeq(p, 1, Len(owner.toks))
                      /\ (Len(owner.toks) = Len(p) => owner.toks = p)
    BY <1>1, <1>4, PrefixIs DEF Extends
  <2> HIDE DEF c
  <2>4. CASE Extends(p) /\ Len(owner.toks) = Len(p)
    BY <2>1, <2>2, <2>3, <2>4, <1>2, <1>3, EndsAtOnce
  <2>5. CASE Extends(p) /\ Len(owner.toks) # Len(p)
    <3>1. call' = BeginSpan(c, Len(owner.toks), FALSE)
      BY <2>1, <2>5
    <3> QED BY <3>1, <2>2, <2>3, <2>5, <1>2, <1>3, <1>4, Begins
  <2>6. CASE ~Extends(p)
    <3>1. call' = BeginSpan(c, 0, FALSE) /\ 0 \in 0..MaxLen /\ 0 <= Len(p)
      BY <2>1, <2>6, <1>1, Params
    <3> QED BY <3>1, <2>2, <1>2, <1>3, Begins
  <2> QED BY <2>4, <2>5, <2>6
<1> QED BY <1>5, <1>6

LEMMA CallEvalInv == ASSUME SessionInv, NEW t \in Tokens, CallEval(t) PROVE SessionInv'
<1> DEFINE p == Append(owner.toks, t)
           c == [call EXCEPT !.target = p, !.calls = @ + 1]
<1>1. owner.toks \in Seq(Tokens) /\ Len(owner.toks) \in 0..MaxLen /\ owner.valid /\ Len(owner.toks) < MaxLen
  BY Types, TimelineSeq, Params DEF OwnerRec, CallEval
<1>2. p \in Seq(Tokens) /\ Len(p) = Len(owner.toks) + 1 /\ SubSeq(p, 1, Len(owner.toks)) = owner.toks
  BY <1>1, AppendProperties, PrefixOfAppend
<1> HIDE DEF p
<1>3. p \in Timelines /\ Len(owner.toks) <= Len(p)
  BY <1>1, <1>2, Params DEF Timelines
<1>4. c \in CallRec /\ c.target = p /\ c.run = call.run /\ c.clean = call.clean
  BY <1>3, Called
<1>5. UNCHANGED <<owner, reg, link, worker, serving, faults>> /\ call.pc = "idle"
  BY DEF CallEval
<1>6. CASE ~PlanCurrent /\ ~RouteExists
  <2>1. plan' = NoPlan /\ call' = Return(c, 1, "route")
    BY <1>6 DEF CallEval, p
  <2> HIDE DEF c
  <2>2. call'.pc = "idle"
    BY <2>1, <1>4, ReturnFields
  <2>3. plan' \in PlanRec /\ PlanOK(call', plan', reg)
    BY <2>1, <2>2, RegPositive, Unplanned
  <2> QED BY <1>4, <1>5, <2>1, <2>3, EndsAtOnce
<1>7. CASE PlanCurrent \/ RouteExists
  <2>1. /\ plan' = IF PlanCurrent THEN plan ELSE NewPlan
        /\ call' = BeginSpan(c, Len(owner.toks), FALSE)
    BY <1>7 DEF CallEval, p
  <2>2. plan' \in PlanRec /\ PlanOK(call', plan', reg)
    BY <2>1, <1>7, Planned
  <2> HIDE DEF c
  <2> QED BY <2>1, <2>2, <1>1, <1>2, <1>3, <1>4, <1>5, Begins
<1> QED BY <1>6, <1>7

LEMMA InvalidateInv == ASSUME SessionInv, Invalidate PROVE SessionInv'
<1>1. /\ call.pc = "idle" /\ UNCHANGED <<plan, reg, link, worker, serving, faults>>
      /\ owner' = [owner EXCEPT !.toks = <<>>, !.valid = FALSE]
      /\ call' = [call EXCEPT !.how = "none", !.ret = 1, !.clean = TRUE, !.calls = call.calls + 1]
  BY DEF Invalidate
<1>2. owner' \in OwnerRec /\ owner'.valid = FALSE
  BY <1>1, Types, EmptyTimeline DEF OwnerRec
<1>3. call \in CallRec /\ call.calls + 1 \in Nat
  BY Types, CallFields
<1>4. /\ call' \in CallRec /\ call'.pc = "idle" /\ call'.run = call.run /\ call'.from = call.from /\ call'.acked = call.acked
      /\ call'.pos = call.pos /\ call'.target = call.target /\ call'.ret = 1 /\ call'.how = "none"
  <2>1. call' = [call EXCEPT !.how = "none", !.ret = 1, !.clean = TRUE, !.calls = call.calls + 1] /\ 1 \in 0..1 /\ call.pc = "idle"
    BY <1>1
  <2> QED BY <2>1, <1>3 DEF CallRec
<1>5. CallerOK(owner', call') /\ PlanOK(call', plan', reg')
  BY <1>1, <1>2, <1>4 DEF CallerOK, SessionInv, PlanOK
<1>6. call'.from <= call'.acked /\ call'.acked <= call'.pos /\ call'.pos <= Len(call'.target)
  BY <1>4 DEF SessionInv, SpanOK
<1>7. /\ faults' \in Nat /\ reg' \in RegRec /\ link' \in [Epochs -> LinkRec] /\ LinksOK(link', call.run, Top) /\ plan' \in PlanRec
  BY <1>1, Types DEF SessionInv
<1> QED BY <1>1, <1>2, <1>4, <1>5, <1>6, <1>7, Ends

-----------------------------------------------------------------------------
(* Evaluating a span. *)

\* Where a span stands, and what the owner holds once the reset is done.
LEMMA SpanFacts ==
  ASSUME SessionInv, MayAdvance
  PROVE  /\ call.pc = "span" /\ call.target \in Seq(Tokens) /\ Len(call.target) \in Nat /\ Len(call.target) <= MaxLen
         /\ call.pos \in Nat /\ call.pos < Len(call.target) /\ plan.epoch \in Epochs /\ Top = call.pos
         /\ call.from \in Nat /\ call.acked \in Nat /\ call.from <= call.acked /\ call.acked <= call.pos
         /\ OwnerReset \in OwnerRec /\ OwnerReset.toks = SubSeq(call.target, 1, call.pos)
         /\ (Resets /\ call.pos = 0 <=> call.pos = 0)
<1>1. call \in CallRec /\ call.pc = "span" /\ call.pos < Len(call.target)
  BY Types DEF MayAdvance
<1>2. call.target \in Seq(Tokens) /\ Len(call.target) \in Nat /\ Len(call.target) <= MaxLen
  BY <1>1, CallFields, TimelineSeq
<1>3. call.from \in Nat /\ call.acked \in Nat /\ call.pos \in Nat
  BY <1>1, CallFields
<1>4. /\ call.from <= call.acked /\ call.acked <= call.pos
      /\ (call.from = 0 /\ call.pos = 0) \/ (owner.valid /\ owner.toks = SubSeq(call.target, 1, call.pos))
  BY <1>1 DEF SessionInv, SpanOK
<1>5. plan.epoch \in Epochs
  BY <1>1 DEF SessionInv, PlanOK
<1>6. Top = call.pos
  BY <1>1 DEF Top
<1>7. Resets /\ call.pos = 0 <=> call.pos = 0
  BY <1>3, <1>4 DEF Resets
<1>8. owner \in OwnerRec
  BY Types
<1>9. OwnerReset \in OwnerRec
  BY <1>8, EmptyTimeline DEF OwnerReset, OwnerRec
<1>10. OwnerReset.toks = SubSeq(call.target, 1, call.pos)
  <2>1. CASE call.pos = 0
    <3>1. SubSeq(call.target, 1, 0) = <<>>
      BY <1>2, SubSeqEmpty
    <3>2. OwnerReset = [owner EXCEPT !.toks = <<>>, !.valid = FALSE]
      BY <2>1, <1>7 DEF OwnerReset
    <3> QED BY <2>1, <3>1, <3>2, <1>8 DEF OwnerRec
  <2>2. CASE call.pos # 0
    <3>1. OwnerReset = owner
      BY <2>2 DEF OwnerReset
    <3> QED BY <2>2, <3>1, <1>4
  <2> QED BY <2>1, <2>2
<1> QED BY <1>1, <1>2, <1>3, <1>4, <1>5, <1>6, <1>7, <1>9, <1>10

\* A frame is sent to the first worker.
LEMMA FrameSent ==
  ASSUME NEW lk, lk \in [Epochs -> LinkRec], NEW r, NEW t, LinksOK(lk, r, t), NEW e \in Epochs, NEW f \in GoodFrames(1, r, t)
  PROVE  /\ [lk EXCEPT ![e].frames[1] = Append(@, f)] \in [Epochs -> LinkRec]
         /\ LinksOK([lk EXCEPT ![e].frames[1] = Append(@, f)], r, t)
<1> DEFINE l == [lk[e] EXCEPT !.frames[1] = Append(lk[e].frames[1], f)]
<1>1. LinkOK(lk[e], r, t) /\ 1 \in Workers
  BY DEF LinksOK, Workers
<1>2. Append(lk[e].frames[1], f) \in Seq(GoodFrames(1, r, t))
  BY <1>1, FramesOf, AppendProperties
<1>3. LinkOK(l, r, t)
  BY <1>1, <1>2, FramesSet
<1>4. [lk EXCEPT ![e].frames[1] = Append(@, f)] = [lk EXCEPT ![e] = l]
  OBVIOUS
<1> HIDE DEF l
<1>5. [lk EXCEPT ![e] = l] \in [Epochs -> LinkRec] /\ LinksOK([lk EXCEPT ![e] = l], r, t)
  BY <1>3, LinksSet
<1> QED BY <1>4, <1>5, Zenon

LEMMA EvalLocalInv == ASSUME SessionInv, EvalLocal PROVE SessionInv'
<1> DEFINE t == call.target[call.pos + 1]
           pre == SubSeq(call.target, 1, call.pos)
           toks == SubSeq(call.target, 1, call.pos + 1)
           f == [run |-> call.run, pos |-> call.pos, pre |-> pre, tok |-> t, reset |-> Resets /\ call.pos = 0, made |-> <<toks>>]
<1>1. MayAdvance
  BY DEF EvalLocal
<1>2. /\ call.pc = "span" /\ call.target \in Seq(Tokens) /\ Len(call.target) \in Nat /\ Len(call.target) <= MaxLen
      /\ call.pos \in Nat /\ call.pos < Len(call.target) /\ plan.epoch \in Epochs /\ Top = call.pos
      /\ call.acked \in Nat /\ call.acked <= call.pos /\ call.from <= call.acked
      /\ OwnerReset.toks = pre /\ (Resets /\ call.pos = 0 <=> call.pos = 0)
  BY <1>1, SpanFacts
<1>3. t \in Tokens /\ Append(pre, t) = toks
  BY <1>2, PrefixNext
<1>4. call.pos + 1 \in Nat /\ call.pos + 1 <= Len(call.target) /\ call.pos <= Len(call.target) /\ call.pos + 1 <= MaxLen /\ call.pos <= MaxLen
      /\ call.pos + 1 \in 0..MaxLen /\ call.acked <= call.pos + 1
  BY <1>2, Params
<1>5. pre \in Timelines /\ Len(pre) = call.pos
  BY <1>2, <1>4, PrefixFacts DEF Timelines
<1>6. toks \in Timelines
  BY <1>2, <1>4, PrefixFacts DEF Timelines
<1>7. /\ owner' = [owner EXCEPT !.toks = toks, !.valid = TRUE]
      /\ link' = IF link[plan.epoch].up THEN [link EXCEPT ![plan.epoch].frames[1] = Append(@, f)] ELSE link
      /\ call' = [call EXCEPT !.pos = call.pos + 1]
      /\ UNCHANGED <<plan, reg, worker, serving, faults>>
  BY <1>2, <1>3 DEF EvalLocal
<1>8. owner \in OwnerRec /\ call \in CallRec /\ call.run \in Nat
  BY Types
<1> HIDE DEF t, pre, toks
<1>9. f \in GoodFrames(1, call.run, call.pos + 1)
  <2>1. <<toks>> = Made(1, toks) /\ <<toks>> \in Seq(Timelines)
    BY <1>6, Copies
  <2>2. f \in Frame
    BY <1>2, <1>3, <1>5, <1>8, <2>1 DEF Frame
  <2>3. Behind(f, call.run, call.pos + 1)
    BY <1>2, <1>8 DEF Behind
  <2> QED BY <1>2, <1>3, <1>5, <1>6, <2>1, <2>2, <2>3 DEF GoodFrames
<1> HIDE DEF f
<1>10. link \in [Epochs -> LinkRec] /\ LinksOK(link, call.run, call.pos + 1)
  <2>1. link \in [Epochs -> LinkRec]
    BY Types
  <2>2. LinksOK(link, call.run, call.pos)
    BY <1>2 DEF SessionInv
  <2>3. call.pos <= call.pos + 1
    BY <1>2
  <2> QED BY <1>2, <1>4, <1>8, <2>1, <2>2, <2>3, LinksMono
<1>11. link' \in [Epochs -> LinkRec] /\ LinksOK(link', call.run, call.pos + 1)
  <2>1. CASE link[plan.epoch].up
    <3>1. link' = [link EXCEPT ![plan.epoch].frames[1] = Append(@, f)] /\ plan.epoch \in Epochs
      BY <1>2, <1>7, <2>1
    <3> QED BY <3>1, <1>9, <1>10, FrameSent
  <2>2. CASE ~link[plan.epoch].up
    <3>1. link' = link
      BY <2>2, <1>7
    <3> QED BY <3>1, <1>10
  <2> QED BY <2>1, <2>2
<1>12. owner' \in OwnerRec /\ owner'.valid = TRUE /\ owner'.toks = toks
  <2>1. owner' = [owner EXCEPT !.toks = toks, !.valid = TRUE]
    BY <1>7
  <2> QED BY <1>6, <1>8, <2>1 DEF OwnerRec
<1>13. /\ call' \in CallRec /\ call'.pc = "span" /\ call'.run = call.run /\ call'.pos = call.pos + 1 /\ call'.target = call.target
       /\ call'.from = call.from /\ call'.acked = call.acked
  <2>1. call' = [call EXCEPT !.pos = call.pos + 1]
    BY <1>7
  <2> QED BY <1>2, <1>4, <1>8, <2>1 DEF CallRec
<1>14. SpanOK(owner', call')
  BY <1>2, <1>4, <1>12, <1>13 DEF SpanOK, toks
<1>15. CallerOK(owner', call')
  BY <1>13 DEF CallerOK
<1>16. plan' = plan /\ reg' = reg /\ plan' \in PlanRec /\ reg' \in RegRec /\ faults' \in Nat
  BY <1>7, Types
<1>17. PlanOK(call', plan', reg')
  BY <1>2, <1>13, <1>16 DEF SessionInv, PlanOK
<1>18. LinksOK(link', call'.run, IF call'.pc = "span" THEN call'.pos ELSE MaxLen)
  BY <1>11, <1>13
<1>19. UNCHANGED <<worker, serving>>
  BY <1>7
<1> QED BY <1>11, <1>12, <1>13, <1>14, <1>15, <1>16, <1>17, <1>18, <1>19, CallStep

\* A span, or its failure, is given up: the local timeline may have been
\* dropped, the link may be down.
LEMMA SpanFails ==
  ASSUME SessionInv, call.pc = "span", UNCHANGED <<plan, reg, worker, serving>>, faults' \in Nat, owner' \in OwnerRec,
         NEW rc \in 1..2, Failed(rc), link' \in [Epochs -> LinkRec], LinksOK(link', call.run, Top)
  PROVE  SessionInv'
<1>1. call \in CallRec
  BY Types
<1>2. call' = [call EXCEPT !.pc = "failed", !.rc = rc] /\ rc \in 0..2
  BY DEF Failed
<1>3. /\ call' \in CallRec /\ call'.pc = "failed" /\ call'.run = call.run /\ call'.from = call.from /\ call'.acked = call.acked
      /\ call'.pos = call.pos /\ call'.target = call.target
  BY <1>1, <1>2 DEF CallRec
<1>4. CallerOK(owner', call')
  BY <1>3 DEF CallerOK
<1>5. plan' = plan /\ reg' = reg /\ plan' \in PlanRec /\ reg' \in RegRec
  BY Types
<1>6. PlanOK(call', plan', reg')
  BY <1>3, <1>5 DEF SessionInv, PlanOK
<1>7. call'.from <= call'.acked /\ call'.acked <= call'.pos /\ call'.pos <= Len(call'.target)
  BY <1>3 DEF SessionInv, SpanOK
<1>8. UNCHANGED <<worker, serving>>
  OBVIOUS
<1>9. call'.pc # "span"
  BY <1>3
<1> QED BY <1>3, <1>4, <1>5, <1>6, <1>7, <1>8, <1>9, Ends

LEMMA Abandoned ==
  ASSUME SessionInv, plan.epoch \in Epochs, NEW lk, lk \in [Epochs -> LinkRec], NEW r, NEW t, LinksOK(lk, r, t)
  PROVE  Abandon(lk) \in [Epochs -> LinkRec] /\ LinksOK(Abandon(lk), r, t)
<1> DEFINE l == [lk[plan.epoch] EXCEPT !.up = FALSE]
<1>1. LinkOK(l, r, t)
  BY LinkDown DEF LinksOK
<1>2. [lk EXCEPT ![plan.epoch].up = FALSE] = [lk EXCEPT ![plan.epoch] = l]
  OBVIOUS
<1> HIDE DEF l
<1>3. [lk EXCEPT ![plan.epoch] = l] \in [Epochs -> LinkRec] /\ LinksOK([lk EXCEPT ![plan.epoch] = l], r, t)
  BY <1>1, LinksSet
<1> QED BY <1>2, <1>3, Zenon DEF Abandon

LEMMA SpanEpoch == ASSUME SessionInv, call.pc \in {"span", "failed"} PROVE plan.epoch \in Epochs
BY DEF SessionInv, PlanOK

LEMMA LinksNow == ASSUME SessionInv PROVE link \in [Epochs -> LinkRec] /\ LinksOK(link, call.run, Top)
BY DEF SessionInv, TypeOK

LEMMA EvalLocalFailsInv == ASSUME SessionInv, EvalLocalFails PROVE SessionInv'
<1>1. /\ MayAdvance /\ faults' = faults + 1 /\ owner' = [OwnerReset EXCEPT !.valid = FALSE] /\ link' = Abandon(link)
      /\ Failed(1) /\ UNCHANGED <<plan, reg, worker, serving>>
  BY DEF EvalLocalFails, Fault
<1>2. call.pc = "span" /\ plan.epoch \in Epochs /\ OwnerReset \in OwnerRec
  BY <1>1, SpanFacts
<1>3. owner' \in OwnerRec
  <2>1. owner' = [OwnerReset EXCEPT !.valid = FALSE]
    BY <1>1
  <2> QED BY <1>2, <2>1 DEF OwnerRec
<1>4. link' \in [Epochs -> LinkRec] /\ LinksOK(link', call.run, Top)
  BY <1>1, <1>2, LinksNow, Abandoned
<1>5. faults' \in Nat /\ 1 \in 1..2
  BY <1>1, Counts
<1> QED BY <1>1, <1>2, <1>3, <1>4, <1>5, SpanFails

\* A result is taken off the span's connection.
LEMMA ResultTaken ==
  ASSUME SessionInv, Reading, link[plan.epoch].replies # <<>>, NEW n, n = [link EXCEPT ![plan.epoch].replies = Tail(@)]
  PROVE  /\ call.pc = "span" /\ plan.epoch \in Epochs /\ Top = call.pos
         /\ Head(link[plan.epoch].replies) \in GoodResults(call.run, call.pos)
         /\ n \in [Epochs -> LinkRec] /\ LinksOK(n, call.run, Top)
<1>1. call.pc = "span" /\ plan.epoch \in Epochs /\ Top = call.pos
  BY SpanEpoch DEF Reading, Top
<1> DEFINE e == plan.epoch
           q == link[e].replies
           l == [link[e] EXCEPT !.replies = Tail(q)]
<1>2. link \in [Epochs -> LinkRec] /\ LinksOK(link, call.run, Top) /\ LinkOK(link[e], call.run, Top) /\ e \in Epochs
  BY <1>1, LinksNow DEF LinksOK
<1>3. q \in Seq(GoodResults(call.run, Top)) /\ q # <<>>
  BY <1>2 DEF LinkOK
<1>4. Head(q) \in GoodResults(call.run, Top) /\ Tail(q) \in Seq(GoodResults(call.run, Top))
  BY <1>3, HeadTailProperties
<1>5. LinkOK(l, call.run, Top)
  BY <1>2, <1>4, RepliesSet
<1>6. n = [link EXCEPT ![e] = l]
  OBVIOUS
<1> HIDE DEF l
<1>7. n \in [Epochs -> LinkRec] /\ LinksOK(n, call.run, Top)
  <2> HIDE DEF e
  <2>1. [link EXCEPT ![e] = l] \in [Epochs -> LinkRec] /\ LinksOK([link EXCEPT ![e] = l], call.run, Top)
    BY <1>2, <1>5, LinksSet
  <2> QED BY <1>6, <2>1, Zenon
<1> QED BY <1>1, <1>4, <1>7

LEMMA HeadFailsInv == ASSUME SessionInv, HeadFails PROVE SessionInv'
<1>1. /\ Reading /\ link[plan.epoch].replies # <<>> /\ faults' = faults + 1
      /\ link' = [link EXCEPT ![plan.epoch].replies = Tail(@)] /\ Failed(1) /\ UNCHANGED <<owner, plan, reg, worker, serving>>
  BY DEF HeadFails, Fault
<1>2. call.pc = "span" /\ link' \in [Epochs -> LinkRec] /\ LinksOK(link', call.run, Top)
  BY <1>1, ResultTaken
<1>3. faults' \in Nat /\ 1 \in 1..2
  BY <1>1, Counts
<1>4. owner' \in OwnerRec
  BY <1>1, Types
<1> QED BY <1>1, <1>2, <1>3, <1>4, SpanFails

LEMMA RecvRejectedInv == ASSUME SessionInv, RecvRejected PROVE SessionInv'
<1> DEFINE v == Verdict(Head(link[plan.epoch].replies))
           n == [link EXCEPT ![plan.epoch].replies = Tail(@)]
<1>1. /\ Reading /\ link[plan.epoch].replies # <<>> /\ v # 0 /\ link' = Abandon(n) /\ Failed(v)
      /\ UNCHANGED <<owner, plan, reg, worker, serving, faults>>
  BY DEF RecvRejected
<1>2. v \in 1..2
  BY <1>1 DEF Verdict
<1>3. call.pc = "span" /\ plan.epoch \in Epochs /\ n \in [Epochs -> LinkRec] /\ LinksOK(n, call.run, Top)
  BY <1>1, ResultTaken
<1> HIDE DEF v, n
<1>4. link' \in [Epochs -> LinkRec] /\ LinksOK(link', call.run, Top)
  BY <1>1, <1>3, Abandoned
<1>5. owner' \in OwnerRec /\ faults' \in Nat
  BY <1>1, Types
<1> QED BY <1>1, <1>2, <1>3, <1>4, <1>5, SpanFails

LEMMA RecvFailsInv == ASSUME SessionInv, RecvFails PROVE SessionInv'
<1>1. Reading /\ link' = Abandon(link) /\ Failed(1) /\ UNCHANGED <<owner, plan, reg, worker, serving, faults>>
  BY DEF RecvFails
<1>2. call.pc = "span" /\ plan.epoch \in Epochs
  BY <1>1, SpanEpoch DEF Reading
<1>3. link' \in [Epochs -> LinkRec] /\ LinksOK(link', call.run, Top)
  BY <1>1, <1>2, LinksNow, Abandoned
<1>4. owner' \in OwnerRec /\ faults' \in Nat /\ 1 \in 1..2
  BY <1>1, Types
<1> QED BY <1>1, <1>2, <1>3, <1>4, SpanFails

\* The answer that ends a span was computed, on every node, from the target.
LEMMA LastAnswer ==
  ASSUME SessionInv, Reading, link[plan.epoch].replies # <<>>, Verdict(Head(link[plan.epoch].replies)) = 0
  PROVE  /\ call.acked + 1 \in 0..MaxLen /\ call.acked + 1 <= call.pos
         /\ call.acked + 1 = Len(call.target) =>
              owner.valid /\ owner.toks = call.target /\ Head(link[plan.epoch].replies).made = All3(call.target)
<1> DEFINE m == Head(link[plan.epoch].replies)
<1>1. call.pc = "span" /\ m \in GoodResults(call.run, call.pos)
  BY ResultTaken
<1>2. /\ call \in CallRec /\ call.acked \in Nat /\ call.pos \in Nat /\ call.pos <= MaxLen /\ call.run \in Nat
      /\ call.target \in Seq(Tokens) /\ Len(call.target) \in Nat
  BY Types, CallFields, TimelineSeq
<1>3. m.run = call.run /\ m.pos = call.acked /\ m.ok /\ m.hash = Expected
  BY DEF Verdict
<1> HIDE DEF m
<1>4. m.made = All3(m.hash) /\ m.pos < call.pos
  BY <1>1, <1>3 DEF GoodResults, Behind
<1>5. call.acked < call.pos
  BY <1>3, <1>4
<1>6. call.pos <= Len(call.target) /\ (call.pos = 0 \/ (owner.valid /\ owner.toks = SubSeq(call.target, 1, call.pos)))
  BY <1>1 DEF SessionInv, SpanOK
<1>7. ASSUME call.acked + 1 = Len(call.target)
      PROVE  owner.valid /\ owner.toks = call.target /\ m.made = All3(call.target)
  <2>1. call.pos = Len(call.target) /\ call.pos # 0
    BY <1>2, <1>5, <1>6, <1>7
  <2>2. owner.valid /\ owner.toks = call.target
    BY <1>2, <1>6, <2>1, PrefixWhole
  <2>3. Expected = call.target
    BY <1>2, <1>7, <2>2, PrefixWhole DEF Expected
  <2> QED BY <2>2, <2>3, <1>3, <1>4
<1>8. call.acked + 1 \in 0..MaxLen /\ call.acked + 1 <= call.pos
  BY <1>2, <1>5, Params
<1> QED BY <1>7, <1>8 DEF m

LEMMA RecvResultInv == ASSUME SessionInv, RecvResult PROVE SessionInv'
<1> DEFINE m == Head(link[plan.epoch].replies)
           last == call.acked + 1 = Len(call.target)
<1>1. /\ Reading /\ link[plan.epoch].replies # <<>> /\ Verdict(m) = 0
      /\ link' = [link EXCEPT ![plan.epoch].replies = Tail(@)]
      /\ owner' = IF last THEN [owner EXCEPT !.logits = m.made] ELSE owner
      /\ call' = IF last THEN Return(call, 0, "evaluated") ELSE [call EXCEPT !.acked = call.acked + 1]
      /\ plan' = IF last THEN [plan EXCEPT !.ready = TRUE] ELSE plan
      /\ UNCHANGED <<reg, worker, serving, faults>>
  BY DEF RecvResult
<1>2. call.pc = "span" /\ plan.epoch \in Epochs /\ Top = call.pos /\ link' \in [Epochs -> LinkRec] /\ LinksOK(link', call.run, Top)
  BY <1>1, ResultTaken
<1>3. /\ call.acked + 1 \in 0..MaxLen /\ call.acked + 1 <= call.pos
      /\ last => owner.valid /\ owner.toks = call.target /\ m.made = All3(call.target)
  BY <1>1, LastAnswer
<1>4. owner \in OwnerRec /\ call \in CallRec /\ plan \in PlanRec /\ call.target \in Timelines /\ call.from \in Nat /\ call.acked \in Nat
  BY Types, CallFields
<1>5. faults' \in Nat /\ reg' \in RegRec /\ reg' = reg /\ UNCHANGED <<worker, serving>>
  BY <1>1, Types
<1> HIDE DEF m
<1>6. CASE last
  <2>1. owner' = [owner EXCEPT !.logits = All3(call.target)] /\ call' = Return(call, 0, "evaluated") /\ plan' = [plan EXCEPT !.ready = TRUE]
    BY <1>1, <1>3, <1>6
  <2>2. All3(call.target) \in [1..3 -> Timelines]
    BY <1>4 DEF All3
  <2>3. owner' \in OwnerRec /\ owner'.toks = owner.toks /\ owner'.valid = owner.valid /\ owner'.logits = All3(call.target)
    <3>1. owner' = [owner EXCEPT !.logits = All3(call.target)]
      BY <2>1
    <3> HIDE DEF last
    <3> QED BY <1>4, <2>2, <3>1 DEF OwnerRec
  <2>4. plan' \in PlanRec /\ plan'.gen = plan.gen /\ plan'.epoch = plan.epoch
    <3>1. plan' = [plan EXCEPT !.ready = TRUE]
      BY <2>1
    <3> HIDE DEF last
    <3> QED BY <1>4, <3>1 DEF PlanRec
  <2>5. /\ call' \in CallRec /\ call'.pc = "idle" /\ call'.target = call.target /\ call'.from = 0 /\ call'.pos = 0 /\ call'.acked = 0
        /\ call'.run = call.run
    BY <1>4, <2>1, ReturnFields
  <2>6. CallerOK(owner', call')
    BY <1>3, <1>6, <2>3, <2>5 DEF CallerOK
  <2>7. PlanOK(call', plan', reg')
    BY <1>5, <2>4, <2>5 DEF SessionInv, PlanOK
  <2>8. call'.from <= call'.acked /\ call'.acked <= call'.pos /\ call'.pos <= Len(call'.target) /\ call'.pc # "span"
    BY <1>4, <2>5, TimelineSeq
  <2> QED BY <1>2, <1>5, <2>3, <2>4, <2>5, <2>6, <2>7, <2>8, Ends
<1>7. CASE ~last
  <2>1. owner' = owner /\ call' = [call EXCEPT !.acked = call.acked + 1] /\ plan' = plan
    BY <1>1, <1>7
  <2>2. /\ call' \in CallRec /\ call'.pc = "span" /\ call'.target = call.target /\ call'.from = call.from /\ call'.pos = call.pos
        /\ call'.acked = call.acked + 1 /\ call'.run = call.run
    <3>1. call' = [call EXCEPT !.acked = call.acked + 1] /\ call.acked + 1 \in 0..MaxLen
      BY <2>1, <1>3
    <3> HIDE DEF last
    <3> QED BY <3>1, <1>2, <1>4 DEF CallRec
  <2>3. call.from <= call.acked + 1
    BY <1>4 DEF SessionInv, SpanOK
  <2>4. SpanOK(owner', call')
    BY <1>2, <1>3, <2>1, <2>2, <2>3 DEF SessionInv, SpanOK
  <2>5. CallerOK(owner', call')
    BY <2>2 DEF CallerOK
  <2>6. PlanOK(call', plan', reg')
    BY <1>2, <1>5, <2>1, <2>2 DEF SessionInv, PlanOK
  <2>7. LinksOK(link', call'.run, IF call'.pc = "span" THEN call'.pos ELSE MaxLen)
    BY <1>2, <2>2
  <2>8. owner' \in OwnerRec /\ plan' \in PlanRec
    BY <1>4, <2>1
  <2> QED BY <1>2, <1>5, <2>2, <2>4, <2>5, <2>6, <2>7, <2>8, CallStep
<1> QED BY <1>6, <1>7

-----------------------------------------------------------------------------
(* Recovery. *)

\* A call that ends in failure: what the caller may rely on is gone.
LEMMA FailsAt ==
  ASSUME SessionInv, UNCHANGED <<owner, reg, link, worker, serving, faults>>, call' = Return(call, 1, "failed"),
         plan' \in PlanRec, PlanOK(call', plan', reg)
  PROVE  SessionInv'
<1>1. call \in CallRec /\ call.target \in Timelines /\ owner' \in OwnerRec /\ reg' \in RegRec /\ faults' \in Nat
  BY Types, CallFields
<1>2. /\ call' \in CallRec /\ call'.pc = "idle" /\ call'.target = call.target /\ call'.from = 0 /\ call'.pos = 0 /\ call'.acked = 0
      /\ call'.run = call.run /\ call'.how = "failed" /\ call'.clean = FALSE
  <2>1. "failed" \notin {"same", "route"} /\ (1 = 0) = FALSE /\ 1 \in 0..1 /\ "failed" \in {"same", "route", "evaluated", "failed"}
    OBVIOUS
  <2>2. Return(call, 1, "failed").clean = FALSE
    BY <1>1, <2>1 DEF Return, CallRec
  <2>3. call'.clean = FALSE
    BY <2>2
  <2> QED BY <1>1, <2>1, <2>3, ReturnFields
<1>3. CallerOK(owner', call')
  BY <1>2 DEF CallerOK
<1>4. call'.from <= call'.acked /\ call'.acked <= call'.pos /\ call'.pos <= Len(call'.target) /\ call'.pc # "span"
  BY <1>1, <1>2, TimelineSeq
<1>5. link' \in [Epochs -> LinkRec] /\ LinksOK(link', call.run, Top)
  BY LinksNow
<1>6. PlanOK(call', plan', reg') /\ UNCHANGED <<worker, serving>>
  OBVIOUS
<1> QED BY <1>1, <1>2, <1>3, <1>4, <1>5, <1>6, Ends

LEMMA GiveUpInv == ASSUME SessionInv, GiveUp PROVE SessionInv'
<1>1. /\ plan' = [plan EXCEPT !.ready = FALSE, !.gen = 0] /\ call' = Return(call, 1, "failed")
      /\ UNCHANGED <<owner, reg, link, worker, serving, faults>>
  BY DEF GiveUp
<1>2. call \in CallRec /\ plan \in PlanRec
  BY Types
<1>3. call'.pc = "idle"
  BY <1>1, <1>2, ReturnFields
<1>4. plan' \in PlanRec /\ plan'.gen = 0
  <2>1. plan' = [plan EXCEPT !.ready = FALSE, !.gen = 0]
    BY <1>1
  <2> QED BY <2>1, <1>2 DEF PlanRec
<1>5. PlanOK(call', plan', reg)
  BY <1>3, <1>4, RegPositive DEF PlanOK
<1> QED BY <1>1, <1>4, <1>5, FailsAt

LEMMA ReplayInPlaceInv == ASSUME SessionInv, ReplayInPlace PROVE SessionInv'
<1>1. /\ call.pc = "failed" /\ call' = BeginSpan(call, 0, TRUE) /\ UNCHANGED <<owner, plan, reg, link, worker, serving, faults>>
  BY DEF ReplayInPlace
<1>2. call \in CallRec /\ call.target \in Timelines /\ 0 <= Len(call.target) /\ 0 \in 0..MaxLen /\ plan' \in PlanRec /\ plan' = plan
  BY <1>1, Types, CallFields, TimelineSeq, Params
<1>3. PlanOK(call', plan', reg)
  BY <1>1, <1>2 DEF SessionInv, PlanOK
<1> QED BY <1>1, <1>2, <1>3, Begins

LEMMA ForgetRouteInv == ASSUME SessionInv, ForgetRoute PROVE SessionInv'
<1> DEFINE g == IF reg.first # NoRoute \/ reg.second THEN reg.gen + 1 ELSE reg.gen
           n == [e \in Epochs |-> IF e \in {plan.epoch, reg.first} THEN [link[e] EXCEPT !.up = FALSE] ELSE link[e]]
<1>1. /\ call.pc = "failed" /\ reg' = [gen |-> g, first |-> NoRoute, second |-> FALSE] /\ link' = n /\ plan' = NoPlan
      /\ call' = [call EXCEPT !.pc = "reroute"] /\ UNCHANGED <<owner, worker, serving, faults>>
  BY DEF ForgetRoute
<1>2. g \in Nat /\ g > 0
  BY RegPositive
<1> HIDE DEF g
<1>3. reg' \in RegRec /\ reg'.gen > 0
  <2>1. reg' = [gen |-> g, first |-> NoRoute, second |-> FALSE]
    BY <1>1
  <2> QED BY <2>1, <1>2 DEF RegRec
<1>4. call \in CallRec
  BY Types
<1>5. /\ call' \in CallRec /\ call'.pc = "reroute" /\ call'.run = call.run /\ call'.from = call.from /\ call'.acked = call.acked
      /\ call'.pos = call.pos /\ call'.target = call.target
  <2>1. call' = [call EXCEPT !.pc = "reroute"]
    BY <1>1
  <2> QED BY <2>1, <1>4 DEF CallRec
<1>6. plan' \in PlanRec /\ PlanOK(call', plan', reg')
  BY <1>1, <1>3, <1>5, Unplanned
<1>7. \A e \in Epochs : LinkOK(n[e], call.run, Top) /\ n[e] \in LinkRec
  <2> SUFFICES ASSUME NEW e \in Epochs PROVE LinkOK(n[e], call.run, Top) /\ n[e] \in LinkRec
    BY Zenon
  <2>1. LinkOK(link[e], call.run, Top)
    BY LinksNow DEF LinksOK
  <2>2. LinkOK([link[e] EXCEPT !.up = FALSE], call.run, Top)
    BY <2>1, LinkDown
  <2>3. n[e] = [link[e] EXCEPT !.up = FALSE] \/ n[e] = link[e]
    OBVIOUS
  <2> HIDE DEF n
  <2>4. LinkOK(n[e], call.run, Top)
    BY <2>1, <2>2, <2>3
  <2> QED BY <2>4 DEF LinkOK
<1>8. n \in [Epochs -> LinkRec]
  BY <1>7
<1>9. link' \in [Epochs -> LinkRec] /\ LinksOK(link', call.run, Top)
  BY <1>1, <1>7, <1>8 DEF LinksOK
<1>10. CallerOK(owner', call')
  BY <1>5 DEF CallerOK
<1>11. call'.from <= call'.acked /\ call'.acked <= call'.pos /\ call'.pos <= Len(call'.target) /\ call'.pc # "span"
  BY <1>5 DEF SessionInv, SpanOK
<1>12. owner' \in OwnerRec /\ faults' \in Nat /\ UNCHANGED <<worker, serving>>
  BY <1>1, Types
<1> QED BY <1>3, <1>5, <1>6, <1>9, <1>10, <1>11, <1>12, Ends

LEMMA RerouteInv == ASSUME SessionInv, Reroute PROVE SessionInv'
<1>1. call.pc = "reroute" /\ UNCHANGED <<owner, reg, link, worker, serving, faults>>
  BY DEF Reroute
<1>2. call \in CallRec /\ call.target \in Timelines /\ 0 <= Len(call.target) /\ 0 \in 0..MaxLen
  BY Types, CallFields, TimelineSeq, Params
<1>3. CASE RouteExists
  <2>1. plan' = NewPlan /\ call' = BeginSpan(call, 0, TRUE)
    BY <1>3 DEF Reroute
  <2>2. plan' \in PlanRec /\ PlanOK(call', plan', reg)
    BY <1>3, <2>1, NewPlanOK
  <2> QED BY <1>1, <1>2, <2>1, <2>2, Begins
<1>4. CASE ~RouteExists
  <2>1. plan' = NoPlan /\ call' = Return(call, 1, "failed")
    BY <1>4 DEF Reroute
  <2>2. call'.pc = "idle"
    BY <2>1, <1>2, ReturnFields
  <2>3. plan' \in PlanRec /\ PlanOK(call', plan', reg)
    BY <2>1, <2>2, RegPositive, Unplanned
  <2> QED BY <1>1, <2>1, <2>3, FailsAt
<1> QED BY <1>3, <1>4

-----------------------------------------------------------------------------
(* The theorems. *)

LEMMA InitInv == ASSUME Init PROVE SessionInv
<1>1. 0 \in 0..MaxLen /\ 0 \in 0..2 /\ 1 \in 0..1 /\ <<>> \in Timelines /\ Len(<<>>) = 0
  BY Params, EmptyTimeline
<1>2. owner \in OwnerRec /\ owner.valid = FALSE
  BY <1>1 DEF Init, OwnerRec
<1>3. call \in CallRec /\ call.pc = "idle" /\ call.how = "none" /\ call.from = 0 /\ call.acked = 0 /\ call.pos = 0 /\ call.target = <<>>
      /\ call.run = 0
  BY <1>1 DEF Init, CallRec
<1>4. plan \in PlanRec /\ reg \in RegRec /\ PlanOK(call, plan, reg)
  BY <1>3 DEF Init, PlanRec, RegRec, PlanOK
<1>5. serving \in ServingRec /\ faults \in Nat
  BY DEF Init, ServingRec
<1>6. worker \in [Workers -> Session] /\ \A w \in Workers : TrustOK(worker[w])
  BY <1>1 DEF Init, Fresh, Session, TrustOK
<1>7. Quiet \in LinkRec /\ LinkOK(Quiet, call.run, Top)
  <2>1. Quiet.frames = [w \in Workers |-> <<>>] /\ Quiet.replies = <<>> /\ Quiet.up = FALSE
    BY DEF Quiet
  <2>2. \A S : <<>> \in Seq(S)
    OBVIOUS
  <2>3. [w \in Workers |-> <<>>] \in [Workers -> Seq(Frame)]
    BY <2>2
  <2>4. Quiet \in LinkRec
    BY <2>2, <2>3 DEF Quiet, LinkRec
  <2>5. Quiet.frames[1] = <<>> /\ Quiet.frames[2] = <<>>
    BY <2>1 DEF Workers
  <2> QED BY <2>1, <2>2, <2>4, <2>5, Zenon DEF LinkOK
<1>8. link \in [Epochs -> LinkRec] /\ LinksOK(link, call.run, Top)
  BY <1>7 DEF Init, LinksOK
<1>9. SpanOK(owner, call) /\ CallerOK(owner, call)
  BY <1>1, <1>2, <1>3 DEF SpanOK, CallerOK
<1> QED BY <1>2, <1>3, <1>4, <1>5, <1>6, <1>8, <1>9 DEF SessionInv, TypeOK

LEMMA StutterInv == ASSUME SessionInv, UNCHANGED vars PROVE SessionInv'
<1>1. Top' = Top
  BY DEF vars, Top
<1> QED BY <1>1 DEF vars, SessionInv, TypeOK, LinksOK, LinkOK, SpanOK, PlanOK, TrustOK, CallerOK, Top

LEMMA NextInv == ASSUME SessionInv, [Next]_vars PROVE SessionInv'
<1>1. CASE Caller
  BY <1>1, InvalidateInv, CallSyncInv, CallEvalInv DEF Caller
<1>2. CASE Coordinator
  BY <1>2, EvalLocalInv, EvalLocalFailsInv, RecvResultInv, HeadFailsInv, RecvRejectedInv, RecvFailsInv,
     GiveUpInv, ReplayInPlaceInv, ForgetRouteInv, RerouteInv DEF Coordinator
<1>3. CASE Route
  <2>1. CASE FirstConnects \/ FirstLeaves \/ Unregister \/ SecondConnects \/ SecondLeaves
    BY <2>1, FirstConnectsInv, FirstLeavesInv, RegistryInv, SecondLeavesInv
  <2>2. ASSUME NEW e \in Epochs, LinkBreaks(e) \/ DropStale(e) \/ ForwardFails(e) PROVE SessionInv'
    BY <2>2, LinkBreaksInv, DropStaleInv, ForwardFailsInv
  <2>3. ASSUME NEW e \in Epochs, NEW w \in Workers, Work(e, w) \/ WorkRefused(e, w) \/ WorkFails(e, w) PROVE SessionInv'
    BY <2>3, WorkInv, WorkRefusedInv, WorkFailsInv
  <2> QED BY <1>3, <2>1, <2>2, <2>3 DEF Route
<1>4. CASE UNCHANGED vars
  BY <1>4, StutterInv
<1> QED BY <1>1, <1>2, <1>3, <1>4 DEF Next

\* The inductive invariant holds in every reachable state, for any prompts and
\* any bounds on calls, connections and failures (ds4_dist_session_sync, _eval
\* and the workers' dist_worker_process_work_payload).
THEOREM SessionInvariant == Spec => []SessionInv
<1>1. Init => SessionInv
  BY InitInv
<1>2. SessionInv /\ [Next]_vars => SessionInv'
  BY NextInv
<1> QED BY <1>1, <1>2, PTL DEF Spec

\* Every node's bookkeeping agrees with what it holds: a span starts where the
\* local timeline ends or resets it, a trusted hash is the hash of its
\* timeline, a plan that is used again names the registered workers.
THEOREM NodesInStepHolds == Spec => []NodesInStep
<1>1. SessionInv => NodesInStep
  <2> SUFFICES ASSUME SessionInv PROVE NodesInStep
    OBVIOUS
  <2>1. TypeOK
    BY DEF SessionInv
  <2>2. HashTellsTimeline
    BY DEF SessionInv, HashTellsTimeline, TrustOK
  <2>3. PlanIsCurrent
    BY DEF SessionInv, PlanOK, PlanIsCurrent, PlanCurrent, RouteExists
  <2>4. MayAdvance => InStep(OwnerReset, call.pos)
    <3> SUFFICES ASSUME MayAdvance PROVE InStep(OwnerReset, call.pos)
      OBVIOUS
    <3>1. owner \in OwnerRec
      BY Types
    <3>2. CASE call.pos = 0
      <4>1. Resets /\ call.pos = 0
        BY <3>2, SpanFacts
      <4>2. OwnerReset.valid = FALSE
        BY <3>1, <4>1 DEF OwnerReset, OwnerRec
      <4> QED BY <3>2, <4>2 DEF InStep
    <3>3. CASE call.pos # 0
      <4>1. OwnerReset = owner /\ OwnerReset.toks = SubSeq(call.target, 1, call.pos)
        BY <3>3, SpanFacts DEF OwnerReset
      <4>2. owner.valid
        BY <3>3 DEF SessionInv, SpanOK, MayAdvance
      <4>3. Len(SubSeq(call.target, 1, call.pos)) = call.pos
        <5>1. call.target \in Seq(Tokens) /\ Len(call.target) \in Nat /\ call.pos \in Nat /\ call.pos < Len(call.target)
          BY SpanFacts
        <5> QED BY <5>1, PrefixFacts
      <4> QED BY <4>1, <4>2, <4>3 DEF InStep
    <3> QED BY <3>2, <3>3
  <2>5. call.pc = "span" => plan.epoch \in Epochs
    BY SpanEpoch
  <2>6. OwnerInStep
    BY <2>4, <2>5 DEF SessionInv, SpanOK, OwnerInStep
  <2> QED BY <2>1, <2>2, <2>3, <2>6 DEF NodesInStep
<1> QED BY <1>1, SessionInvariant, PTL

\* Answers are exact on the wire and at the caller: a frame or a result, of any
\* connection, stands for the timeline its hash names on every node it passed,
\* and a call that evaluated leaves the logits of its target.
THEOREM AnswersExactHolds == Spec => []AnswersExact
<1>1. SessionInv => AnswersExact
  <2> SUFFICES ASSUME SessionInv PROVE AnswersExact
    OBVIOUS
  <2>1. EvaluatedExact
    BY DEF SessionInv, CallerOK, EvaluatedExact
  <2>2. ASSUME NEW e \in Epochs, NEW w \in Workers, NEW i \in DOMAIN link[e].frames[w]
        PROVE  link[e].frames[w][i].made = [k \in 1..w |-> Append(link[e].frames[w][i].pre, link[e].frames[w][i].tok)]
    <3> DEFINE q == link[e].frames[w]
    <3>1. q \in Seq(GoodFrames(w, call.run, Top))
      BY LinksNow, FramesOf DEF LinksOK
    <3>2. i \in 1..Len(q)
      BY <3>1, LenProperties
    <3>3. q[i] \in GoodFrames(w, call.run, Top)
      BY <3>1, <3>2, ElementOfSeq
    <3>4. q[i].made = Made(w, Append(q[i].pre, q[i].tok))
      BY <3>3, FrameFacts
    <3> QED BY <3>4, Zenon DEF Made
  <2>3. ASSUME NEW e \in Epochs, NEW i \in DOMAIN link[e].replies
        PROVE  link[e].replies[i].ok => link[e].replies[i].made = All3(link[e].replies[i].hash)
    <3> DEFINE q == link[e].replies
    <3>1. q \in Seq(GoodResults(call.run, Top))
      BY LinksNow DEF LinksOK, LinkOK
    <3>2. i \in 1..Len(q)
      BY <3>1, LenProperties
    <3>3. q[i] \in GoodResults(call.run, Top)
      BY <3>1, <3>2, ElementOfSeq
    <3> QED BY <3>3 DEF GoodResults
  <2>4. ResultsExact
    BY <2>2, <2>3 DEF ResultsExact
  <2> QED BY <2>1, <2>4 DEF AnswersExact
<1> QED BY <1>1, SessionInvariant, PTL

\* A sync that finds the timeline already there returns the timeline's logits,
\* as long as no call has failed since the timeline was evaluated.
THEOREM SameIsFreshHolds == Spec => []SameIsFresh
<1>1. SessionInv => SameIsFresh
  BY DEF SessionInv, CallerOK, SameIsFresh
<1> QED BY <1>1, SessionInvariant, PTL
=============================================================================
