---------------------------- MODULE WorkspaceProofs ----------------------------
(***************************************************************************)
(* Proofs about Workspace, for any number of clients, variants, edits and  *)
(* runs and queues of any length.                                          *)
(***************************************************************************)
EXTENDS Workspace, SequenceTheorems, TLAPS

-----------------------------------------------------------------------------
(* Queues.  A frame that is no load leaves what a queue is about, if it is   *)
(* about that itself.                                                        *)
LEMMA AboutAppend ==
  ASSUME NEW q \in Seq(Frames), NEW a, NEW f \in Frames, NEW from \in 1..(Len(q) + 1), NEW p,
         About(q, a, from, p), f.op # "load",
         f.op \in {"save", "run"} => f.project = a,
         f.op = "dropGraph" => f.project # a
  PROVE  About(Append(q, f), a, from, p)
<1>. DEFINE r == Append(q, f)
<1>1. /\ Len(r) = Len(q) + 1 /\ Len(q) \in Nat /\ r[Len(q) + 1] = f
      /\ \A i \in 1..Len(q) : r[i] = q[i]
  BY AppendProperties
<1>. HIDE DEF r
<1>2. ASSUME NEW to \in 0..(Len(q) + 1), to <= Len(q), NoLoad(r, from, to)
      PROVE  NoLoad(q, from, to)
  BY <1>1, <1>2 DEF NoLoad
<1>3. ASSUME NEW j \in from..Len(q), NoLoad(r, from, j - 1)
      PROVE  /\ r[j].op \in {"save", "run"} => r[j].project = p
             /\ r[j].op = "dropGraph" => r[j].project # p
  BY <1>1, <1>2, <1>3 DEF About
<1>4. NoLoad(r, from, Len(q)) => a = p
  BY <1>1, <1>2 DEF About
<1>5. NoLoad(r, from, Len(q) + 1) => a = p
  BY <1>1, <1>4 DEF NoLoad
<1>6. \A j \in from..Len(r) : j \in from..Len(q) \/ j = Len(q) + 1
  BY <1>1
<1>. QED
  BY <1>1, <1>3, <1>4, <1>5, <1>6 DEF About, r

(* A load ends what a queue is about, and begins what follows.               *)
LEMMA AboutLoad ==
  ASSUME NEW q \in Seq(Frames), NEW a, NEW f \in Frames, NEW from \in 1..(Len(q) + 1), NEW p,
         About(q, a, from, p), f.op = "load"
  PROVE  About(Append(q, f), f.project, from, p)
<1>. DEFINE r == Append(q, f)
<1>1. /\ Len(r) = Len(q) + 1 /\ Len(q) \in Nat /\ r[Len(q) + 1] = f
      /\ \A i \in 1..Len(q) : r[i] = q[i]
  BY AppendProperties
<1>. HIDE DEF r
<1>2. ASSUME NEW j \in from..Len(q), NoLoad(r, from, j - 1)
      PROVE  /\ r[j].op \in {"save", "run"} => r[j].project = p
             /\ r[j].op = "dropGraph" => r[j].project # p
  <2>1. NoLoad(q, from, j - 1)
    BY <1>1, <1>2 DEF NoLoad
  <2>. QED
    BY <1>1, <2>1 DEF About
<1>3. ~NoLoad(r, from, Len(r))
  BY <1>1 DEF NoLoad
<1>4. \A j \in from..Len(r) : j \in from..Len(q) \/ j = Len(q) + 1
  BY <1>1
<1>. QED
  BY <1>1, <1>2, <1>3, <1>4 DEF About, r

(* Nothing follows a load that was just sent.                                *)
LEMMA AboutLast ==
  ASSUME NEW q \in Seq(Frames), NEW a PROVE About(q, a, Len(q) + 1, a)
  BY LenProperties DEF About

(* A frame that is handled shifts a queue.                                   *)
LEMMA AboutTail ==
  ASSUME NEW q \in Seq(Frames), q # <<>>, NEW a, NEW from \in 1..Len(q), NEW p
  PROVE  About(Tail(q), a, from, p) <=> About(q, a, from + 1, p)
<1>. DEFINE r == Tail(q)
<1>1. /\ Len(r) = Len(q) - 1 /\ Len(q) \in Nat
      /\ \A i \in 1..Len(r) : r[i] = q[i + 1]
  BY HeadTailProperties, LenProperties
<1>. HIDE DEF r
<1>2. \A to \in Int : to <= Len(r) => (NoLoad(r, from, to) <=> NoLoad(q, from + 1, to + 1))
  <2>. SUFFICES ASSUME NEW to \in Int, to <= Len(r)
                PROVE  NoLoad(r, from, to) <=> NoLoad(q, from + 1, to + 1)
    OBVIOUS
  <2>1. \A k \in from..to : r[k] = q[k + 1]
    BY <1>1
  <2>2. \A k \in (from + 1)..(to + 1) : k - 1 \in from..to /\ q[k] = r[k - 1]
    BY <1>1
  <2>3. ASSUME NoLoad(r, from, to), NEW k \in (from + 1)..(to + 1) PROVE q[k].op # "load"
    BY <2>2, <2>3 DEF NoLoad
  <2>4. ASSUME NoLoad(q, from + 1, to + 1), NEW k \in from..to PROVE r[k].op # "load"
    <3>1. k + 1 \in (from + 1)..(to + 1)
      OBVIOUS
    <3>. QED
      BY <2>1, <2>4, <3>1 DEF NoLoad
  <2>. QED
    BY <2>3, <2>4 DEF NoLoad
<1>3. NoLoad(r, from, Len(r)) <=> NoLoad(q, from + 1, Len(q))
  BY <1>1, <1>2
<1>4. \A j \in from..Len(r) : /\ j + 1 \in (from + 1)..Len(q) /\ r[j] = q[j + 1]
                              /\ NoLoad(r, from, j - 1) <=> NoLoad(q, from + 1, j)
  BY <1>1, <1>2
<1>5. \A j \in (from + 1)..Len(q) : /\ j - 1 \in from..Len(r) /\ q[j] = r[j - 1]
                                    /\ NoLoad(r, from, j - 2) <=> NoLoad(q, from + 1, j - 1)
  BY <1>1, <1>2
<1>6. ASSUME About(r, a, from, p) PROVE About(q, a, from + 1, p)
  <2>1. ASSUME NEW j \in (from + 1)..Len(q), NoLoad(q, from + 1, j - 1)
        PROVE  /\ q[j].op \in {"save", "run"} => q[j].project = p
               /\ q[j].op = "dropGraph" => q[j].project # p
    <3>1. j - 1 \in from..Len(r) /\ q[j] = r[j - 1] /\ NoLoad(r, from, (j - 1) - 1)
      BY <1>1, <1>5, <2>1
    <3>. QED
      BY <1>6, <3>1 DEF About
  <2>. QED
    BY <1>3, <1>6, <2>1 DEF About
<1>7. ASSUME About(q, a, from + 1, p) PROVE About(r, a, from, p)
  <2>1. ASSUME NEW j \in from..Len(r), NoLoad(r, from, j - 1)
        PROVE  /\ r[j].op \in {"save", "run"} => r[j].project = p
               /\ r[j].op = "dropGraph" => r[j].project # p
    <3>1. j + 1 \in (from + 1)..Len(q) /\ r[j] = q[j + 1] /\ NoLoad(q, from + 1, (j + 1) - 1)
      BY <1>1, <1>4, <2>1
    <3>. QED
      BY <1>7, <3>1 DEF About
  <2>. QED
    BY <1>3, <1>7, <2>1 DEF About
<1>. QED
  BY <1>6, <1>7 DEF r

(* The same facts about every load in a queue.                               *)
LEMMA OrderAppend ==
  ASSUME NEW q \in Seq(Frames), NEW a, NEW f \in Frames, NEW lost \in BOOLEAN,
         LoadsInOrder(q, a, lost), f.op # "load",
         f.op \in {"save", "run"} => f.project = a,
         f.op = "dropGraph" => f.project # a
  PROVE  LoadsInOrder(Append(q, f), a, lost)
<1>. DEFINE r == Append(q, f)
<1>1. /\ Len(r) = Len(q) + 1 /\ Len(q) \in Nat /\ r[Len(q) + 1] = f
      /\ \A i \in 1..Len(q) : r[i] = q[i]
  BY AppendProperties
<1>. HIDE DEF r
<1>2. ASSUME NEW i \in 1..Len(r), r[i].op = "load", ~lost \/ NoDrop(r, i)
      PROVE  About(r, a, i + 1, r[i].project)
  <2>1. i \in 1..Len(q) /\ r[i] = q[i]
    BY <1>1, <1>2
  <2>2. ~lost \/ NoDrop(q, i)
    BY <1>1, <1>2 DEF NoDrop
  <2>3. About(q, a, i + 1, q[i].project) /\ i + 1 \in 1..(Len(q) + 1)
    BY <1>2, <2>1, <2>2 DEF LoadsInOrder
  <2>. QED
    BY <2>1, <2>3, AboutAppend DEF r
<1>. QED
  BY <1>2 DEF LoadsInOrder, r

(* The loads of a client that is lost are in order after a deletion is sent. *)
LEMMA OrderDrop ==
  ASSUME NEW q \in Seq(Frames), NEW a, NEW f \in Frames, f.op = "dropGraph"
  PROVE  LoadsInOrder(Append(q, f), a, TRUE)
<1>1. /\ Len(Append(q, f)) = Len(q) + 1 /\ Len(q) \in Nat
      /\ Append(q, f)[Len(q) + 1].op = "dropGraph"
  BY AppendProperties
<1>2. \A i \in 1..(Len(q) + 1) : ~NoDrop(Append(q, f), i)
  BY <1>1 DEF NoDrop
<1>. QED
  BY <1>1, <1>2 DEF LoadsInOrder

(* Those of a client that sends a load are. *)
LEMMA OrderLoad ==
  ASSUME NEW q \in Seq(Frames), NEW a, NEW f \in Frames, NEW lost \in BOOLEAN,
         LoadsInOrder(q, a, lost), f.op = "load"
  PROVE  LoadsInOrder(Append(q, f), f.project, lost)
<1>. DEFINE r == Append(q, f)
<1>1. /\ Len(r) = Len(q) + 1 /\ Len(q) \in Nat /\ r[Len(q) + 1] = f
      /\ \A i \in 1..Len(q) : r[i] = q[i] 
      /\ r \in Seq(Frames)
  BY AppendProperties
<1>. HIDE DEF r
<1>2. ASSUME NEW i \in 1..Len(q), r[i].op = "load", ~lost \/ NoDrop(r, i)
      PROVE  About(r, f.project, i + 1, r[i].project)
  <2>1. ~lost \/ NoDrop(q, i)
    BY <1>1, <1>2 DEF NoDrop
  <2>2. About(q, a, i + 1, q[i].project) /\ i + 1 \in 1..(Len(q) + 1) /\ r[i] = q[i]
    BY <1>1, <1>2, <2>1 DEF LoadsInOrder
  <2>. QED
    BY <2>2, AboutLoad DEF r
<1>3. About(r, f.project, Len(q) + 1 + 1, r[Len(q) + 1].project)
  BY <1>1, AboutLast
<1>. QED
  BY <1>1, <1>2, <1>3 DEF LoadsInOrder, r

(* Handling the head of a queue keeps its loads in order. *)
LEMMA OrderTail ==
  ASSUME NEW q \in Seq(Frames), q # <<>>, NEW a, NEW lost \in BOOLEAN, LoadsInOrder(q, a, lost)
  PROVE  LoadsInOrder(Tail(q), a, lost)
<1>. DEFINE r == Tail(q)
<1>1. /\ Len(r) = Len(q) - 1 /\ Len(q) \in Nat
      /\ \A i \in 1..Len(r) : r[i] = q[i + 1]
  BY HeadTailProperties, LenProperties
<1>. HIDE DEF r
<1>2. ASSUME NEW i \in 1..Len(r), r[i].op = "load", ~lost \/ NoDrop(r, i)
      PROVE  About(r, a, i + 1, r[i].project)
  <2>1. i + 1 \in 1..Len(q) /\ r[i] = q[i + 1]
    BY <1>1
  <2>2. ~lost \/ NoDrop(q, i + 1)
    <3>1. ASSUME NEW k \in (i + 1)..Len(q), NoDrop(r, i) PROVE q[k].op # "dropGraph"
      <4>1. k - 1 \in i..Len(r) /\ q[k] = r[k - 1]
        BY <1>1
      <4>. QED
        BY <3>1, <4>1 DEF NoDrop
    <3>. QED
      BY <1>2, <3>1 DEF NoDrop
  <2>3. About(q, a, (i + 1) + 1, q[i + 1].project) /\ i + 1 \in 1..Len(q)
    BY <1>2, <2>1, <2>2 DEF LoadsInOrder
  <2>. QED
    BY <2>1, <2>3, AboutTail DEF r
<1>. QED
  BY <1>2 DEF LoadsInOrder, r

(* What will be saved is not forgotten by what is sent after it, except that *)
(* a load with no save before it must not come while a save is pending.      *)
LEMMA SavesAppend ==
  ASSUME NEW q \in Seq(Frames), NEW t \in BOOLEAN, NEW u \in BOOLEAN, NEW f \in Frames,
         NEW from \in 1..(Len(q) + 1), SavesFrom(q, t, from),
         ~t \/ (f.op # "load" /\ (u \/ f.op = "save"))
  PROVE  SavesFrom(Append(q, f), u, from)
<1>. DEFINE r == Append(q, f)
<1>1. /\ Len(r) = Len(q) + 1 /\ Len(q) \in Nat /\ r[Len(q) + 1] = f
      /\ \A i \in 1..Len(q) : r[i] = q[i]
  BY AppendProperties
<1>. HIDE DEF r
<1>2. CASE \E j \in from..Len(q) : q[j].op = "save" /\ NoLoad(q, from, j)
  <2>1. PICK j \in from..Len(q) : q[j].op = "save" /\ NoLoad(q, from, j)
    BY <1>2
  <2>2. j \in from..Len(r) /\ r[j].op = "save" /\ NoLoad(r, from, j)
    BY <1>1, <2>1 DEF NoLoad
  <2>. QED
    BY <2>2 DEF SavesFrom, r
<1>3. CASE t /\ NoLoad(q, from, Len(q))
  <2>1. f.op # "load" /\ NoLoad(r, from, Len(r))
    BY <1>1, <1>3 DEF NoLoad
  <2>2. CASE u
    BY <2>1, <2>2 DEF SavesFrom, r
  <2>3. CASE f.op = "save"
    <3>1. Len(r) \in from..Len(r) /\ r[Len(r)].op = "save"
      BY <1>1, <2>3
    <3>. QED
      BY <2>1, <3>1 DEF SavesFrom, r
  <2>. QED
    BY <1>3, <2>2, <2>3
<1>. QED
  BY <1>2, <1>3 DEF SavesFrom

(* A client whose timer runs saves what it sends. *)
LEMMA SavesLast ==
  ASSUME NEW q \in Seq(Frames), NEW f \in Frames, f.op # "load"
  PROVE  SavesFrom(Append(q, f), TRUE, Len(q) + 1)
<1>1. Len(Append(q, f)) = Len(q) + 1 /\ Len(q) \in Nat /\ Append(q, f)[Len(q) + 1] = f
  BY AppendProperties
<1>. QED
  BY <1>1 DEF SavesFrom, NoLoad

(* A save that is to come is one place nearer when the head is handled. *)
LEMMA SavesTail ==
  ASSUME NEW q \in Seq(Frames), q # <<>>, NEW t \in BOOLEAN, NEW from \in 1..Len(q),
         SavesFrom(q, t, from + 1)
  PROVE  SavesFrom(Tail(q), t, from)
<1>. DEFINE r == Tail(q)
<1>1. /\ Len(r) = Len(q) - 1 /\ Len(q) \in Nat
      /\ \A i \in 1..Len(r) : r[i] = q[i + 1]
  BY HeadTailProperties, LenProperties
<1>. HIDE DEF r
<1>2. CASE t /\ NoLoad(q, from + 1, Len(q))
  <2>1. NoLoad(r, from, Len(r))
    BY <1>1, <1>2 DEF NoLoad
  <2>. QED
    BY <1>2, <2>1 DEF SavesFrom, r
<1>3. CASE \E j \in (from + 1)..Len(q) : q[j].op = "save" /\ NoLoad(q, from + 1, j)
  <2>1. PICK j \in (from + 1)..Len(q) : q[j].op = "save" /\ NoLoad(q, from + 1, j)
    BY <1>3
  <2>2. j - 1 \in from..Len(r) /\ r[j - 1].op = "save"
    BY <1>1, <2>1
  <2>3. \A k \in from..(j - 1) : k + 1 \in (from + 1)..j /\ r[k] = q[k + 1]
    BY <1>1
  <2>4. NoLoad(r, from, j - 1)
    BY <2>1, <2>3 DEF NoLoad
  <2>. QED
    BY <2>2, <2>4 DEF SavesFrom, r
<1>. QED
  BY <1>2, <1>3 DEF SavesFrom

(* The save to come is lost to no other head than itself. *)
LEMMA SavesHead ==
  ASSUME NEW q \in Seq(Frames), q # <<>>, NEW t \in BOOLEAN, SavesFrom(q, t, 1)
  PROVE  /\ Head(q).op # "load"
         /\ Head(q).op # "save" => SavesFrom(Tail(q), t, 1)
<1>1. Len(q) \in Nat /\ Len(q) >= 1 /\ Head(q) = q[1]
  BY LenProperties, HeadTailProperties
<1>2. Head(q).op # "load"
  BY <1>1 DEF SavesFrom, NoLoad
<1>3. ASSUME Head(q).op # "save" PROVE SavesFrom(q, t, 2)
  BY <1>1, <1>3 DEF SavesFrom, NoLoad
<1>. QED
  BY <1>1, <1>2, <1>3, SavesTail

-----------------------------------------------------------------------------
(* The initial state satisfies the inductive invariant.                      *)
LEMMA InitInvariant == Init => Core
<1>. SUFFICES ASSUME Init PROVE Core
  OBVIOUS
<1>. USE WorkspaceAssumption DEF Init
<1>1. TypeOK
  <2>1. queue \in [Clients -> Seq(Frames)] /\ \A c \in Clients : Len(queue[c]) <= MaxQueue
    BY EmptySeq
  <2>2. /\ active \in [Clients -> Projects] /\ store \in [Projects -> Canvases \cup {None}]
        /\ home \in Projects
    BY DEF Projects
  <2>3. canvas \in Canvases /\ edits \in Canvases /\ runs \in 0..MaxRuns /\ 0 \in 0..MaxRuns
    BY DEF Canvases
  <2>. QED
    BY <2>1, <2>2, <2>3 DEF TypeOK
<1>2. FramesInOrder /\ EditsAreFollowed
  BY EmptySeq DEF FramesInOrder, InOrder, LoadsInOrder, EditsAreFollowed, EditsFollowed
<1>3. UnsavedHasCause /\ ResultsFollowRuns
  BY DEF UnsavedHasCause, Untouched, ResultsFollowRuns
<1>. QED
  BY <1>1, <1>2, <1>3 DEF Core

(* What is sent is queued behind the rest, if the socket is open.            *)
LEMMA TwoBehind ==
  ASSUME NEW S, NEW q \in Seq(S), NEW f \in S, NEW g \in S
  PROVE  /\ q \o <<f, g>> = Append(Append(q, f), g)
         /\ Append(<<>>, g) = <<g>> /\ Append(<<f>>, g) = <<f, g>> /\ <<f>> # <<>>
<1>1. <<f>> \in Seq(S) /\ <<g>> \in Seq(S) /\ <<f>> # <<>>
  BY SMT
<1>2. Append(<<>>, g) = <<g>>
  <2>1. Append(<<>>, g) \in Seq(S) /\ Len(Append(<<>>, g)) = 1 /\ Append(<<>>, g)[1] = g
    BY EmptySeq, AppendProperties
  <2>2. Len(<<g>>) = 1 /\ <<g>>[1] = g
    OBVIOUS
  <2>. QED
    BY <1>1, <2>1, <2>2, SeqEqual
<1>7. Append(<<f>>, g) = <<f, g>>
  <2>1. /\ Append(<<f>>, g) \in Seq(S) /\ Len(Append(<<f>>, g)) = 2
        /\ Append(<<f>>, g)[1] = f /\ Append(<<f>>, g)[2] = g
    BY <1>1, AppendProperties, Len(<<f>>) = 1
  <2>2. <<f, g>> \in Seq(S) /\ Len(<<f, g>>) = 2 /\ <<f, g>>[1] = f /\ <<f, g>>[2] = g
    OBVIOUS
  <2>. DEFINE r == Append(<<f>>, g)
              t == <<f, g>>
  <2>. HIDE DEF r, t
  <2>3. \A i \in 1..2 : r[i] = t[i]
    <3>1. \A i \in 1..2 : i = 1 \/ i = 2
      OBVIOUS
    <3>. QED
      BY <2>1, <2>2, <3>1 DEF r, t
  <2>4. r \in Seq(S) /\ t \in Seq(S) /\ Len(r) = 2 /\ Len(t) = 2
    BY <2>1, <2>2 DEF r, t
  <2>5. r = t
    BY <2>3, <2>4, SeqEqual
  <2>. QED
    BY <2>5 DEF r, t
<1>3. Append(<<f>>, g) = <<f>> \o <<g>>
  BY <1>1, AppendIsConcat
<1>4. (q \o <<f>>) \o <<g>> = q \o (<<f>> \o <<g>>)
  BY <1>1, ConcatAssociative
<1>5. q \o <<f>> = Append(q, f) /\ Append(q, f) \in Seq(S)
  BY AppendIsConcat, AppendProperties
<1>6. Append(q, f) \o <<g>> = Append(Append(q, f), g)
  BY <1>5, AppendIsConcat
<1>. QED
  BY <1>1, <1>2, <1>3, <1>4, <1>5, <1>6, <1>7

(* What sending one frame does to the queues. *)
LEMMA SendOne ==
  ASSUME TypeOK, NEW c \in Clients, NEW f \in Frames, Send(c, <<f>>)
  PROVE  /\ up[c] => queue' = [queue EXCEPT ![c] = Append(@, f)]
         /\ ~up[c] => queue' = queue
         /\ queue' \in [Clients -> Seq(Frames)] /\ \A d \in Clients : Len(queue'[d]) <= MaxQueue
<1>1. queue[c] \in Seq(Frames) /\ queue[c] \o <<f>> = Append(queue[c], f) /\ Len(<<f>>) = 1
  BY AppendIsConcat DEF TypeOK
<1>2. Append(queue[c], f) \in Seq(Frames) /\ Len(Append(queue[c], f)) = Len(queue[c]) + 1
  BY <1>1, AppendProperties
<1>3. /\ up[c] => queue' = [queue EXCEPT ![c] = Append(@, f)]
      /\ ~up[c] => queue' = queue
      /\ Len(queue[c]) + 1 <= MaxQueue
  BY <1>1 DEF Send
<1>. QED
  BY <1>2, <1>3 DEF TypeOK

(* What sending two does. *)
LEMMA SendTwo ==
  ASSUME TypeOK, NEW c \in Clients, NEW f \in Frames, NEW g \in Frames, Send(c, <<f, g>>)
  PROVE  /\ up[c] => queue' = [queue EXCEPT ![c] = Append(Append(@, f), g)]
         /\ ~up[c] => queue' = queue
         /\ queue' \in [Clients -> Seq(Frames)] /\ \A d \in Clients : Len(queue'[d]) <= MaxQueue
<1>1. queue[c] \in Seq(Frames) /\ Len(<<f, g>>) = 2
  BY DEF TypeOK
<1>2. queue[c] \o <<f, g>> = Append(Append(queue[c], f), g)
  BY <1>1, TwoBehind
<1>3. /\ Append(Append(queue[c], f), g) \in Seq(Frames)
      /\ Len(Append(Append(queue[c], f), g)) = Len(queue[c]) + 2
  BY <1>1, AppendProperties
<1>4. /\ up[c] => queue' = [queue EXCEPT ![c] = Append(Append(@, f), g)]
      /\ ~up[c] => queue' = queue
      /\ Len(queue[c]) + 2 <= MaxQueue
  BY <1>1, <1>2 DEF Send
<1>. QED
  BY <1>3, <1>4 DEF TypeOK

(* What a client sends when it opens a project it is not on.                 *)
LEMMA SwitchSends ==
  ASSUME TypeOK, NEW c \in Clients, NEW p \in Variants, Switch(c, p), p # active[c]
  PROVE  /\ SaveOf(c) \in Frames /\ Frame("load", p, 0) \in Frames
         /\ up[c] /\ timer[c] => queue' = [queue EXCEPT ![c] = Append(Append(@, SaveOf(c)), Frame("load", p, 0))]
         /\ up[c] /\ ~timer[c] => queue' = [queue EXCEPT ![c] = Append(@, Frame("load", p, 0))]
         /\ ~up[c] => queue' = queue
         /\ queue' \in [Clients -> Seq(Frames)] /\ \A d \in Clients : Len(queue'[d]) <= MaxQueue
         /\ timer' = [timer EXCEPT ![c] = FALSE] /\ active' = [active EXCEPT ![c] = p]
         /\ unsaved' = (unsaved \/ (timer[c] /\ ~up[c]))
<1>. DEFINE save == SaveOf(c)
            load == Frame("load", p, 0)
<1>1. save \in Frames /\ load \in Frames
  BY DEF SaveOf, Frame, Frames, TypeOK, Projects
<1>2. /\ Send(c, Append(Flush(c, p), load))
      /\ timer' = [timer EXCEPT ![c] = @ /\ Flush(c, p) = <<>>]
      /\ unsaved' = (unsaved \/ (timer[c] /\ ~up[c]))
      /\ active' = [active EXCEPT ![c] = p]
  BY DEF Switch
<1>3. timer[c] => Flush(c, p) = <<save>>
  BY DEF Flush
<1>4. ~timer[c] => Flush(c, p) = <<>>
  BY DEF Flush
<1>. HIDE DEF save, load
<1>5. CASE timer[c]
  <2>1. Append(Flush(c, p), load) = <<save, load>> /\ Flush(c, p) # <<>>
    BY <1>1, <1>3, <1>5, TwoBehind, EmptySeq
  <2>2. timer' = [timer EXCEPT ![c] = FALSE]
    BY <1>2, <2>1
  <2>3. Send(c, <<save, load>>)
    BY <1>2, <2>1
  <2>4. /\ up[c] => queue' = [queue EXCEPT ![c] = Append(Append(@, save), load)]
        /\ ~up[c] => queue' = queue
        /\ queue' \in [Clients -> Seq(Frames)] /\ \A d \in Clients : Len(queue'[d]) <= MaxQueue
    BY <1>1, <2>3, SendTwo
  <2>. QED
    BY <1>1, <1>2, <1>5, <2>2, <2>4 DEF save, load
<1>6. CASE ~timer[c]
  <2>1. Append(Flush(c, p), load) = <<load>>
    BY <1>1, <1>4, <1>6, TwoBehind, EmptySeq
  <2>2. timer' = [timer EXCEPT ![c] = FALSE]
    BY <1>2, <1>6 DEF TypeOK
  <2>3. Send(c, <<load>>)
    BY <1>2, <2>1
  <2>4. /\ up[c] => queue' = [queue EXCEPT ![c] = Append(@, load)]
        /\ ~up[c] => queue' = queue
        /\ queue' \in [Clients -> Seq(Frames)] /\ \A d \in Clients : Len(queue'[d]) <= MaxQueue
    BY <1>1, <2>3, SendOne
  <2>. QED
    BY <1>1, <1>2, <1>6, <2>2, <2>4 DEF save, load
<1>. QED
  BY <1>5, <1>6

(* The frames a client on project active[c] may send.                        *)
LEMMA FramesSent ==
  ASSUME TypeOK, NEW c \in Clients
  PROVE  /\ \A n \in Canvases : Frame("edit", active[c], n) \in Frames
         /\ SaveOf(c) \in Frames
         /\ Frame("load", active[c], 0) \in Frames /\ Frame("run", active[c], 0) \in Frames
         /\ \A p \in Projects : Frame("delete", p, 0) \in Frames /\ Frame("dropGraph", p, 0) \in Frames
         /\ Frame("accept", None, offer[c]) \in Frames /\ Frame("reject", None, offer[c]) \in Frames
BY DEF Frame, SaveOf, Frames, TypeOK

(* The fields of a frame. *)
LEMMA FrameFields ==
  \A op, project, n : /\ Frame(op, project, n).op = op
                      /\ Frame(op, project, n).project = project
                      /\ Frame(op, project, n).n = n
BY DEF Frame

(* A queue whose client is answered.                                         *)
LEMMA QueueTail ==
  ASSUME TypeOK, NEW c \in Clients, queue[c] # <<>>,
         queue' = [queue EXCEPT ![c] = Tail(@)]
  PROVE  /\ Head(queue[c]) \in Frames
         /\ queue' \in [Clients -> Seq(Frames)] /\ \A d \in Clients : Len(queue'[d]) <= MaxQueue
<1>1. queue[c] \in Seq(Frames)
  BY DEF TypeOK
<1>2. /\ Head(queue[c]) \in Frames /\ Tail(queue[c]) \in Seq(Frames)
      /\ Len(Tail(queue[c])) = Len(queue[c]) - 1 /\ Len(queue[c]) \in Nat
  BY <1>1, HeadTailProperties, LenProperties
<1>. QED
  BY <1>2, WorkspaceAssumption DEF TypeOK

(* What the frames of a kind hold.                                           *)
LEMMA FramesHold ==
  ASSUME NEW f \in Frames
  PROVE  /\ f.op = "edit" => f.n \in Canvases
         /\ f.op \in {"edit", "save", "load", "run", "delete", "dropGraph"} => f.project \in Projects
         /\ f.op \in {"accept", "reject"} => f.n \in 0..MaxRuns
         /\ f.op \in {"edit", "save", "load", "run", "delete", "dropGraph", "accept", "reject"}
BY DEF Frames

-----------------------------------------------------------------------------
(* Every step keeps the type invariant.                                      *)
LEMMA TypeStep == TypeOK /\ [Next]_vars => TypeOK'
<1>. SUFFICES ASSUME TypeOK, [Next]_vars PROVE TypeOK'
  OBVIOUS
<1>. DEFINE QueueOK == /\ queue \in [Clients -> Seq(Frames)]
                       /\ \A c \in Clients : Len(queue[c]) <= MaxQueue
<1>. USE WorkspaceAssumption
<1>1. ASSUME NEW c \in Clients, Connect(c) PROVE TypeOK'
  <2>1. <<Frame("load", active[c], 0)>> \in Seq(Frames) /\ Len(<<Frame("load", active[c], 0)>>) = 1
    BY FramesSent
  <2>2. QueueOK'
    BY <1>1, <2>1 DEF Connect, TypeOK
  <2>. QED
    BY <1>1, <2>2 DEF Connect, TypeOK, serverVars, history
<1>2. ASSUME NEW c \in Clients, Disconnect(c) PROVE TypeOK'
  <2>1. QueueOK'
    BY <1>2, EmptySeq DEF Disconnect, TypeOK
  <2>. QED
    BY <1>2, <2>1 DEF Disconnect, TypeOK, serverVars
<1>3. ASSUME NEW c \in Clients, EditCanvas(c) PROVE TypeOK'
  <2>1. edits' \in Canvases /\ edits' = edits + 1
    BY <1>3 DEF EditCanvas, TypeOK, Canvases
  <2>2. Frame("edit", active[c], edits') \in Frames
    BY <2>1, FramesSent
  <2>3. QueueOK'
    BY <1>3, <2>2, SendOne DEF EditCanvas
  <2>. QED
    BY <1>3, <2>1, <2>3 DEF EditCanvas, TypeOK, serverVars, history
<1>4. ASSUME NEW c \in Clients, TimerFires(c) PROVE TypeOK'
  <2>1. QueueOK'
    BY <1>4, FramesSent, SendOne DEF TimerFires
  <2>. QED
    BY <1>4, <2>1 DEF TimerFires, TypeOK, serverVars
<1>5. ASSUME NEW c \in Clients, NEW p \in Variants, OpenVariant(c, p) PROVE TypeOK'
  <2>1. QueueOK' /\ active' \in [Clients -> Projects] /\ timer' \in [Clients -> BOOLEAN] /\ unsaved' \in BOOLEAN
    <3>1. CASE p = active[c]
      BY <1>5, <3>1 DEF OpenVariant, Switch, TypeOK
    <3>2. CASE p # active[c]
      <4>1. /\ QueueOK' /\ timer' = [timer EXCEPT ![c] = FALSE] /\ active' = [active EXCEPT ![c] = p]
            /\ unsaved' = (unsaved \/ (timer[c] /\ ~up[c]))
        BY <1>5, <3>2, SwitchSends DEF OpenVariant
      <4>. HIDE DEF QueueOK
      <4>. QED
        BY <4>1 DEF TypeOK, Projects
    <3>. QED
      BY <3>1, <3>2
  <2>. QED
    BY <1>5, <2>1 DEF OpenVariant, TypeOK, serverVars
<1>6. ASSUME NEW c \in Clients, NEW p \in Variants, DeleteVariant(c, p) PROVE TypeOK'
  <2>1. p \in Projects /\ Default \in Projects
    BY DEF Projects
  <2>2. QueueOK'
    BY <1>6, <2>1, FramesSent, SendTwo DEF DeleteVariant
  <2>3. active' \in [Clients -> Projects] /\ astray' \subseteq Clients
    BY <1>6, <2>1 DEF DeleteVariant, TypeOK
  <2>. QED
    BY <1>6, <2>2, <2>3 DEF DeleteVariant, TypeOK, serverVars
<1>7. ASSUME NEW c \in Clients, AskToRun(c) PROVE TypeOK'
  <2>1. QueueOK'
    BY <1>7, FramesSent, SendOne DEF AskToRun
  <2>. QED
    BY <1>7, <2>1 DEF AskToRun, TypeOK, clientVars, serverVars, history
<1>8. ASSUME NEW c \in Clients, Answer(c) PROVE TypeOK'
  <2>1. QueueOK'
    BY <1>8, FramesSent, SendOne DEF Answer
  <2>2. offer' \in [Clients -> 0..MaxRuns]
    BY <1>8, 0 \in 0..MaxRuns DEF Answer, TypeOK
  <2>. HIDE DEF QueueOK
  <2>. QED
    BY <1>8, <2>1, <2>2 DEF Answer, TypeOK, serverVars, history, QueueOK
<1>9. ASSUME NEW c \in Clients, Handle(c) PROVE TypeOK'
  <2>. DEFINE f == Head(queue[c])
  <2>1. QueueOK' /\ f \in Frames /\ UNCHANGED <<active, timer, up, edits>>
    BY <1>9, QueueTail DEF Handle
  <2>. HIDE DEF QueueOK
  <2>2. \/ HandleEdit(c, f) \/ HandleSave(c, f)
        \/ Restore(c, f) \/ RefuseRestore(c, f) \/ Adopt(c, f)
        \/ HandleDelete(c, f) \/ HandleDropGraph(c, f)
        \/ HandleRun(c, f) \/ HandleAccept(c, f) \/ HandleReject(c, f)
    BY <1>9 DEF Handle
  <2>. HIDE DEF f
  <2>3. CASE HandleEdit(c, f)
    BY <2>1, <2>3, FramesHold DEF HandleEdit, TypeOK, history, QueueOK
  <2>4. CASE HandleSave(c, f)
    BY <2>1, <2>4, FramesHold DEF HandleSave, SaveGraph, TypeOK, QueueOK
  <2>5. CASE Restore(c, f)
    <3>1. LedAstray(c, f.project) \subseteq Clients
      BY DEF LedAstray, TypeOK
    <3>. QED
      BY <2>1, <2>5, <3>1, FramesHold DEF Restore, LoadGraph, TypeOK, QueueOK
  <2>6. CASE RefuseRestore(c, f)
    BY <2>1, <2>6 DEF RefuseRestore, serverVars, TypeOK, QueueOK
  <2>7. CASE Adopt(c, f)
    <3>1. LedAstray(c, f.project) \subseteq Clients
      BY DEF LedAstray, TypeOK
    <3>. QED
      BY <2>1, <2>7, <3>1, FramesHold DEF Adopt, SaveGraph, TypeOK, QueueOK
  <2>8. CASE HandleDelete(c, f)
    BY <2>1, <2>8 DEF HandleDelete, history, TypeOK, QueueOK
  <2>9. CASE HandleDropGraph(c, f)
    BY <2>1, <2>9, FramesHold DEF HandleDropGraph, TypeOK, QueueOK
  <2>10. CASE HandleRun(c, f)
    <3>1. CASE UNCHANGED <<run, runs, results>>
      BY <2>1, <2>10, <3>1 DEF HandleRun, TypeOK, QueueOK
    <3>2. CASE /\ run = None /\ runs < MaxRuns
               /\ runs' = runs + 1
               /\ run' = [project |-> f.project, n |-> runs']
               /\ results' = [results EXCEPT ![runs'] = [home |-> home, astray |-> c \in astray]]
      <4>1. runs' \in 1..MaxRuns
        BY <3>2 DEF TypeOK
      <4>2. run' \in [project : Projects, n : 1..MaxRuns]
        BY <2>1, <2>10, <3>2, <4>1, FramesHold DEF HandleRun
      <4>3. [home |-> home, astray |-> c \in astray] \in [home : Projects, astray : BOOLEAN]
        BY DEF TypeOK
      <4>4. results' \in [1..MaxRuns -> [home : Projects, astray : BOOLEAN] \cup {None}]
        BY <3>2, <4>1, <4>3 DEF TypeOK
      <4>. QED
        BY <2>1, <2>10, <4>1, <4>2, <4>4 DEF HandleRun, TypeOK, QueueOK
    <3>. QED
      BY <2>10, <3>1, <3>2 DEF HandleRun
  <2>11. CASE HandleAccept(c, f)
    <3>1. f.n \in 0..MaxRuns
      BY <2>1, <2>11, FramesHold DEF HandleAccept
    <3>2. models' \in [Variants -> 0..MaxRuns] /\ pending' \subseteq pending
      BY <2>11, <3>1 DEF HandleAccept, TypeOK
    <3>. QED
      BY <2>1, <2>11, <3>2 DEF HandleAccept, history, TypeOK, QueueOK
  <2>12. CASE HandleReject(c, f)
    BY <2>1, <2>12 DEF HandleReject, history, TypeOK, QueueOK
  <2>. QED
    BY <2>2, <2>3, <2>4, <2>5, <2>6, <2>7, <2>8, <2>9, <2>10, <2>11, <2>12
<1>10. ASSUME EndRun PROVE TypeOK'
  <2>1. run \in [project : Projects, n : 1..MaxRuns] /\ run' = None
    BY <1>10 DEF EndRun, TypeOK
  <2>2. run.n \in 0..MaxRuns /\ run.n \in 1..MaxRuns
    BY <2>1
  <2>3. pending' \subseteq [project : Variants, n : 1..MaxRuns] /\ offer' \in [Clients -> 0..MaxRuns]
    <3>1. CASE UNCHANGED <<pending, offer>>
      BY <3>1 DEF TypeOK
    <3>2. CASE /\ ProposedFor \in variants
               /\ pending' = pending \cup {[project |-> ProposedFor, n |-> run.n]}
               /\ offer' = [c \in Clients |-> IF up[c] THEN run.n ELSE offer[c]]
      BY <2>2, <3>2 DEF TypeOK
    <3>. QED
      BY <1>10, <3>1, <3>2 DEF EndRun
  <2>. QED
    BY <1>10, <2>1, <2>3 DEF EndRun, history, TypeOK
<1>11. ASSUME Restart PROVE TypeOK'
  <2>1. QueueOK'
    BY <1>11, EmptySeq DEF Restart, TypeOK
  <2>2. canvas' \in Canvases /\ home' \in Projects
    BY <1>11 DEF Restart, LoadGraph, TypeOK, Projects, Canvases
  <2>. QED
    BY <1>11, <2>1, <2>2 DEF Restart, TypeOK
<1>12. CASE UNCHANGED vars
  BY <1>12 DEF vars, clientVars, serverVars, history, TypeOK
<1>. QED
  BY <1>1, <1>2, <1>3, <1>4, <1>5, <1>6, <1>7, <1>8, <1>9, <1>10, <1>11, <1>12 DEF Next

-----------------------------------------------------------------------------
(* Every step keeps the frames in order.  First, what a queue is about when  *)
(* it is empty and when its head is handled.                                 *)
LEMMA EmptyOrder ==
  ASSUME NEW a
  PROVE  /\ \A lost \in BOOLEAN : LoadsInOrder(<<>>, a, lost)
         /\ \A p : About(<<>>, a, 1, p) <=> a = p
<1>1. Len(<<>>) = 0
  BY EmptySeq
<1>2. 1..0 = {}
  OBVIOUS
<1>. QED
  BY <1>1, <1>2 DEF LoadsInOrder, About, NoLoad

(* What the head of a queue is about. *)
LEMMA AboutHead ==
  ASSUME NEW q \in Seq(Frames), q # <<>>, NEW a, NEW p, About(q, a, 1, p)
  PROVE  /\ Head(q).op \in {"save", "run"} => Head(q).project = p
         /\ Head(q).op = "dropGraph" => Head(q).project # p
         /\ Head(q).op # "load" => About(Tail(q), a, 1, p)
<1>1. Len(q) \in Nat /\ Len(q) >= 1 /\ Head(q) = q[1]
  BY LenProperties, HeadTailProperties
<1>2. 1 \in 1..Len(q) /\ NoLoad(q, 1, 1 - 1)
  BY <1>1 DEF NoLoad
<1>3. /\ q[1].op \in {"save", "run"} => q[1].project = p
      /\ q[1].op = "dropGraph" => q[1].project # p
  BY <1>2 DEF About
<1>4. ASSUME q[1].op # "load" PROVE About(q, a, 2, p)
  <2>1. \A to \in Int : NoLoad(q, 2, to) => NoLoad(q, 1, to)
    BY <1>4 DEF NoLoad
  <2>2. ASSUME NEW j \in 2..Len(q), NoLoad(q, 2, j - 1)
        PROVE  /\ q[j].op \in {"save", "run"} => q[j].project = p
               /\ q[j].op = "dropGraph" => q[j].project # p
    <3>1. j \in 1..Len(q) /\ NoLoad(q, 1, j - 1)
      BY <1>1, <2>1, <2>2
    <3>. QED
      BY <3>1 DEF About
  <2>3. NoLoad(q, 2, Len(q)) => a = p
    BY <1>1, <2>1 DEF About
  <2>. QED
    BY <2>2, <2>3 DEF About
<1>5. About(Tail(q), a, 1, p) <=> About(q, a, 1 + 1, p)
  BY <1>1, AboutTail
<1>. QED
  BY <1>1, <1>3, <1>4, <1>5

(* A load at the head makes the rest be about the project it loads.          *)
LEMMA LoadAtHead ==
  ASSUME NEW q \in Seq(Frames), q # <<>>, NEW a, NEW lost \in BOOLEAN, LoadsInOrder(q, a, lost),
         Head(q).op = "load", ~lost \/ NoDrop(q, 1)
  PROVE  About(Tail(q), a, 1, Head(q).project)
<1>1. Len(q) \in Nat /\ Len(q) >= 1 /\ Head(q) = q[1]
  BY LenProperties, HeadTailProperties
<1>2. 1 \in 1..Len(q) /\ About(q, a, 1 + 1, q[1].project)
  BY <1>1 DEF LoadsInOrder
<1>. QED
  BY <1>1, <1>2, AboutTail

(* A queue in order is so for a client that is lost, and the other way when no deletion is under way. *)
LEMMA OrderWeaker ==
  ASSUME NEW q, NEW a, NEW lost \in BOOLEAN, LoadsInOrder(q, a, lost)
  PROVE  /\ LoadsInOrder(q, a, TRUE)
         /\ (\A i \in 1..Len(q) : NoDrop(q, i)) => LoadsInOrder(q, a, FALSE)
BY DEF LoadsInOrder

(* The order of a client's frames, by whether it is astray.                  *)
LEMMA OrderCases ==
  ASSUME NEW c
  PROVE  InOrder(c) <=>
           /\ ~up[c] => queue[c] = <<>>
           /\ c \in astray => LoadsInOrder(queue[c], active[c], TRUE)
           /\ c \notin astray => /\ LoadsInOrder(queue[c], active[c], FALSE)
                                 /\ up[c] => About(queue[c], active[c], 1, home)
<1>1. CASE c \in astray
  BY <1>1 DEF InOrder, LoadsInOrder
<1>2. CASE c \notin astray
  BY <1>2 DEF InOrder, LoadsInOrder
<1>. QED
  BY <1>1, <1>2

(* The order of a queue at the next state, by cases. *)
LEMMA OrderCasesNext ==
  ASSUME NEW c
  PROVE  InOrder(c)' <=>
           /\ ~up'[c] => queue'[c] = <<>>
           /\ c \in astray' => LoadsInOrder(queue'[c], active'[c], TRUE)
           /\ c \notin astray' => /\ LoadsInOrder(queue'[c], active'[c], FALSE)
                                  /\ up'[c] => About(queue'[c], active'[c], 1, home')
<1>1. CASE c \in astray'
  BY <1>1 DEF InOrder, LoadsInOrder
<1>2. CASE c \notin astray'
  BY <1>2 DEF InOrder, LoadsInOrder
<1>. QED
  BY <1>1, <1>2

(* A client that is not concerned, or is one astray more.                    *)
LEMMA OrderKept ==
  ASSUME NEW d \in Clients, InOrder(d),
         queue'[d] = queue[d], active'[d] = active[d], up'[d] = up[d],
         d \in astray => d \in astray', home' = home \/ d \in astray'
  PROVE  InOrder(d)'
<1>1. LoadsInOrder(queue[d], active[d], FALSE) => LoadsInOrder(queue[d], active[d], TRUE)
  BY OrderWeaker
<1>. QED
  BY <1>1, OrderCases, OrderCasesNext

(* A client whose first frame is handled, and is no load.                    *)
LEMMA OrderHandled ==
  ASSUME NEW c \in Clients, InOrder(c), queue[c] \in Seq(Frames), queue[c] # <<>>,
         Head(queue[c]).op # "load", queue'[c] = Tail(queue[c]),
         active'[c] = active[c], up'[c] = up[c], home' = home,
         c \in astray => c \in astray'
  PROVE  InOrder(c)'
<1>. DEFINE q == queue[c]
            a == active[c]
<1>1. up[c]
  BY OrderCases
<1>2. ASSUME NEW lost \in BOOLEAN, LoadsInOrder(q, a, lost)
      PROVE  LoadsInOrder(Tail(q), a, lost) /\ LoadsInOrder(Tail(q), a, TRUE)
  BY <1>2, OrderTail, OrderWeaker
<1>3. c \in astray => LoadsInOrder(Tail(q), a, TRUE)
  BY <1>2, OrderCases
<1>4. c \notin astray => LoadsInOrder(Tail(q), a, FALSE) /\ LoadsInOrder(Tail(q), a, TRUE)
  BY <1>2, OrderCases
<1>5. c \notin astray => About(Tail(q), a, 1, home)
  BY <1>1, OrderCases, AboutHead
<1>. QED
  BY <1>1, <1>3, <1>4, <1>5, OrderCasesNext

(* A client that sends a frame about the project it is on.                   *)
LEMMA OrderSent ==
  ASSUME TypeOK, FramesInOrder, NEW c \in Clients, NEW f \in Frames, Send(c, <<f>>),
         f.op # "load",
         f.op \in {"save", "run"} => f.project = active[c],
         f.op = "dropGraph" => f.project # active[c],
         UNCHANGED <<active, up, home, astray>>
  PROVE  FramesInOrder'
<1>1. /\ up[c] => queue' = [queue EXCEPT ![c] = Append(@, f)]
      /\ ~up[c] => queue' = queue
  BY SendOne
<1>2. ASSUME NEW d \in Clients, d # c \/ ~up[c] PROVE InOrder(d)'
  <2>1. queue'[d] = queue[d] /\ InOrder(d)
    BY <1>1, <1>2 DEF TypeOK, FramesInOrder
  <2>. QED
    BY <2>1, OrderKept
<1>3. ASSUME up[c] PROVE InOrder(c)'
  <2>1. queue[c] \in Seq(Frames) /\ queue'[c] = Append(queue[c], f) /\ InOrder(c)
    BY <1>1, <1>3 DEF TypeOK, FramesInOrder
  <2>2. ASSUME NEW lost \in BOOLEAN, LoadsInOrder(queue[c], active[c], lost)
        PROVE  LoadsInOrder(Append(queue[c], f), active[c], lost)
    BY <2>1, <2>2, OrderAppend
  <2>3. Len(queue[c]) \in Nat /\ 1 \in 1..(Len(queue[c]) + 1)
    BY <2>1, LenProperties
  <2>4. About(queue[c], active[c], 1, home) => About(Append(queue[c], f), active[c], 1, home)
    BY <2>1, <2>3, AboutAppend
  <2>5. /\ c \in astray => LoadsInOrder(Append(queue[c], f), active[c], TRUE)
        /\ c \notin astray => LoadsInOrder(Append(queue[c], f), active[c], FALSE)
    BY <2>1, <2>2, OrderCases
  <2>. QED
    BY <1>3, <2>1, <2>4, <2>5, OrderCases, OrderCasesNext
<1>. QED
  BY <1>2, <1>3 DEF FramesInOrder

(* A client that opens a project it is not on.                               *)
LEMMA OrderSwitched ==
  ASSUME TypeOK, FramesInOrder, NEW c \in Clients, NEW p \in Variants, OpenVariant(c, p)
  PROVE  FramesInOrder'
<1>. DEFINE save == SaveOf(c)
            load == Frame("load", p, 0)
<1>1. UNCHANGED <<up, home, astray>> /\ Switch(c, p)
  BY DEF OpenVariant
<1>2. CASE p = active[c]
  <2>1. UNCHANGED <<active, queue>>
    BY <1>1, <1>2 DEF Switch
  <2>. QED
    BY <1>1, <2>1, OrderKept DEF FramesInOrder
<1>3. CASE p # active[c]
  <2>1. /\ save \in Frames /\ load \in Frames
        /\ up[c] /\ timer[c] => queue' = [queue EXCEPT ![c] = Append(Append(@, save), load)]
        /\ up[c] /\ ~timer[c] => queue' = [queue EXCEPT ![c] = Append(@, load)]
        /\ ~up[c] => queue' = queue
        /\ active' = [active EXCEPT ![c] = p]
    BY <1>1, <1>3, SwitchSends
  <2>2. /\ save.op = "save" /\ save.project = active[c]
        /\ load.op = "load" /\ load.project = p
    BY FrameFields DEF SaveOf
  <2>. HIDE DEF save, load
  <2>3. ASSUME NEW d \in Clients, d # c PROVE InOrder(d)'
    <3>1. queue'[d] = queue[d] /\ active'[d] = active[d] /\ InOrder(d)
      BY <2>1, <2>3 DEF TypeOK, FramesInOrder
    <3>. QED
      BY <1>1, <3>1, OrderKept
  <2>. DEFINE q == queue[c]
              a == active[c]
  <2>4. q \in Seq(Frames) /\ InOrder(c) /\ Append(q, save) \in Seq(Frames) /\ active'[c] = p
    BY <2>1, AppendProperties DEF TypeOK, FramesInOrder
  <2>5. Len(q) \in Nat /\ 1 \in 1..(Len(q) + 1) /\ 1 \in 1..(Len(Append(q, save)) + 1)
    BY <2>1, <2>4, LenProperties, AppendProperties
  <2>6. ASSUME ~up[c] PROVE InOrder(c)'
    <3>1. queue[c] = <<>> /\ queue'[c] = <<>>
      BY <2>1, <2>4, <2>6, OrderCases
    <3>. QED
      BY <1>1, <2>6, <3>1, EmptyOrder, OrderCasesNext
  <2>7. ASSUME up[c], timer[c] PROVE InOrder(c)'
    <3>1. queue'[c] = Append(Append(q, save), load)
      BY <2>1, <2>7 DEF TypeOK
    <3>2. ASSUME NEW lost \in BOOLEAN, LoadsInOrder(q, a, lost)
          PROVE  LoadsInOrder(Append(Append(q, save), load), p, lost)
      <4>1. LoadsInOrder(Append(q, save), a, lost)
        BY <2>1, <2>2, <2>4, <3>2, OrderAppend
      <4>2. LoadsInOrder(Append(Append(q, save), load), load.project, lost)
        BY ZenonT(60), <2>1, <2>2, <2>4, <4>1, OrderLoad
      <4>. QED
        BY <2>2, <4>2
    <3>3. ASSUME About(q, a, 1, home) PROVE About(Append(Append(q, save), load), p, 1, home)
      <4>1. About(Append(q, save), a, 1, home)
        BY <2>1, <2>2, <2>4, <2>5, <3>3, AboutAppend
      <4>2. About(Append(Append(q, save), load), load.project, 1, home)
        BY <2>1, <2>2, <2>4, <2>5, <4>1, AboutLoad
      <4>. QED
        BY <2>2, <4>2
    <3>4. /\ c \in astray => LoadsInOrder(queue'[c], p, TRUE)
          /\ c \notin astray => LoadsInOrder(queue'[c], p, FALSE)
      BY <2>4, <3>1, <3>2, OrderCases
    <3>. QED
      BY <1>1, <2>4, <2>7, <3>1, <3>3, <3>4, OrderCases, OrderCasesNext
  <2>8. ASSUME up[c], ~timer[c] PROVE InOrder(c)'
    <3>1. queue'[c] = Append(q, load)
      BY <2>1, <2>8 DEF TypeOK
    <3>2. ASSUME NEW lost \in BOOLEAN, LoadsInOrder(q, a, lost)
          PROVE  LoadsInOrder(Append(q, load), p, lost)
      <4>1. LoadsInOrder(Append(q, load), load.project, lost)
        BY <2>1, <2>2, <2>4, <3>2, OrderLoad
      <4>. QED
        BY <2>2, <4>1
    <3>3. ASSUME About(q, a, 1, home) PROVE About(Append(q, load), p, 1, home)
      <4>1. About(Append(q, load), load.project, 1, home)
        BY <2>1, <2>2, <2>4, <2>5, <3>3, AboutLoad
      <4>. QED
        BY <2>2, <4>1
    <3>4. /\ c \in astray => LoadsInOrder(queue'[c], p, TRUE)
          /\ c \notin astray => LoadsInOrder(queue'[c], p, FALSE)
      BY <2>4, <3>1, <3>2, OrderCases
    <3>. QED
      BY <1>1, <2>4, <2>8, <3>1, <3>3, <3>4, OrderCases, OrderCasesNext
  <2>. QED
    BY <2>3, <2>6, <2>7, <2>8 DEF FramesInOrder
<1>. QED
  BY <1>2, <1>3

(* A client that deletes a variant, its own or another.                      *)
LEMMA OrderDeleted ==
  ASSUME TypeOK, FramesInOrder, NEW c \in Clients, NEW p \in Variants, DeleteVariant(c, p)
  PROVE  FramesInOrder'
<1>. DEFINE delete == Frame("delete", p, 0)
            drop == Frame("dropGraph", p, 0)
            q == queue[c]
            a == active[c]
<1>1. /\ UNCHANGED <<up, home>> /\ Send(c, <<delete, drop>>)
      /\ active' = [active EXCEPT ![c] = IF @ = p THEN Default ELSE @]
      /\ astray' = IF active[c] = p THEN astray \cup {c} ELSE astray
  BY DEF DeleteVariant
<1>2. /\ delete \in Frames /\ drop \in Frames
      /\ delete.op = "delete" /\ drop.op = "dropGraph" /\ drop.project = p
  BY FramesSent, FrameFields DEF Projects
<1>. HIDE DEF delete, drop
<1>3. /\ up[c] => queue' = [queue EXCEPT ![c] = Append(Append(@, delete), drop)]
      /\ ~up[c] => queue' = queue
  BY <1>1, <1>2, SendTwo
<1>4. /\ q \in Seq(Frames) /\ InOrder(c) /\ Append(q, delete) \in Seq(Frames)
      /\ active'[c] = IF a = p THEN Default ELSE a
      /\ Len(q) \in Nat /\ 1 \in 1..(Len(q) + 1) /\ 1 \in 1..(Len(Append(q, delete)) + 1)
  BY <1>1, <1>2, AppendProperties, LenProperties DEF TypeOK, FramesInOrder
<1>5. ASSUME NEW d \in Clients, d # c PROVE InOrder(d)'
  <2>1. /\ queue'[d] = queue[d] /\ active'[d] = active[d] /\ InOrder(d)
        /\ d \in astray => d \in astray'
    BY <1>1, <1>3, <1>5 DEF TypeOK, FramesInOrder
  <2>. QED
    BY <1>1, <2>1, OrderKept
<1>6. ASSUME ~up[c] PROVE InOrder(c)'
  <2>1. queue[c] = <<>> /\ queue'[c] = <<>>
    BY <1>3, <1>4, <1>6, OrderCases
  <2>. QED
    BY <1>1, <1>6, <2>1, EmptyOrder, OrderCasesNext
<1>7. ASSUME up[c] PROVE InOrder(c)'
  <2>1. queue'[c] = Append(Append(q, delete), drop)
    BY <1>3, <1>7 DEF TypeOK
  <2>2. CASE a = p
    <3>1. c \in astray' /\ LoadsInOrder(queue'[c], active'[c], TRUE)
      BY <1>1, <1>2, <1>4, <2>1, <2>2, OrderDrop
    <3>. QED
      BY <1>1, <1>7, <3>1, OrderCasesNext
  <2>3. CASE a # p
    <3>1. ASSUME NEW lost \in BOOLEAN, LoadsInOrder(q, a, lost)
          PROVE  LoadsInOrder(Append(Append(q, delete), drop), a, lost)
      <4>1. LoadsInOrder(Append(q, delete), a, lost)
        BY <1>2, <1>4, <3>1, OrderAppend
      <4>. QED
        BY <1>2, <1>4, <2>3, <4>1, OrderAppend
    <3>2. ASSUME About(q, a, 1, home) PROVE About(Append(Append(q, delete), drop), a, 1, home)
      <4>1. About(Append(q, delete), a, 1, home)
        BY <1>2, <1>4, <3>2, AboutAppend
      <4>. QED
        BY <1>2, <1>4, <2>3, <4>1, AboutAppend
    <3>3. astray' = astray /\ active'[c] = a
      BY <1>1, <1>4, <2>3
    <3>4. /\ c \in astray => LoadsInOrder(queue'[c], a, TRUE)
          /\ c \notin astray => LoadsInOrder(queue'[c], a, FALSE)
      BY <1>4, <2>1, <3>1, OrderCases
    <3>. QED
      BY <1>1, <1>4, <1>7, <2>1, <3>2, <3>3, <3>4, OrderCases, OrderCasesNext
  <2>. QED
    BY <2>2, <2>3
<1>. QED
  BY <1>5, <1>6, <1>7 DEF FramesInOrder

(* A project takes the canvas: who is not on it goes astray.                 *)
LEMMA OrderLoaded ==
  ASSUME TypeOK, FramesInOrder, NEW c \in Clients, queue[c] # <<>>,
         Head(queue[c]).op = "load", queue' = [queue EXCEPT ![c] = Tail(@)],
         UNCHANGED <<active, up>>, home' = Head(queue[c]).project,
         astray' = LedAstray(c, Head(queue[c]).project)
  PROVE  FramesInOrder'
<1>. DEFINE p == Head(queue[c]).project
            q == queue[c]
<1>1. /\ q \in Seq(Frames) /\ queue'[c] = Tail(q) /\ InOrder(c)
      /\ UNCHANGED <<active, up>> /\ home' = p
      /\ astray' = (IF active[c] = p /\ ~Deletes(c) THEN astray \ {c} ELSE astray)
                     \cup { d \in Clients \ {c} : up[d] /\ (active[d] # p \/ queue[d] # <<>>) }
  BY DEF TypeOK, FramesInOrder, LedAstray
<1>2. up[c] /\ DOMAIN q = 1..Len(q) /\ Len(q) \in Nat
  BY <1>1, OrderCases, LenProperties
<1>. HIDE DEF p
<1>3. ASSUME NEW d \in Clients, d # c PROVE InOrder(d)'
  <2>1. /\ queue'[d] = queue[d] /\ active'[d] = active[d] /\ up'[d] = up[d] /\ InOrder(d)
        /\ d \in astray => d \in astray'
        /\ d \notin astray' => ~up[d] \/ (active[d] = p /\ queue[d] = <<>>)
    BY <1>1, <1>3 DEF TypeOK, FramesInOrder
  <2>2. CASE d \in astray'
    BY <2>1, <2>2, OrderKept
  <2>3. CASE d \notin astray'
    <3>1. queue'[d] = <<>> /\ (up'[d] => active'[d] = home')
      BY <1>1, <2>1, <2>3, OrderCases
    <3>. QED
      BY <2>3, <3>1, EmptyOrder, OrderCasesNext
  <2>. QED
    BY <2>2, <2>3
<1>4. InOrder(c)'
  <2>. DEFINE a == active[c]
  <2>1. ASSUME NEW lost \in BOOLEAN, LoadsInOrder(q, a, lost)
        PROVE  LoadsInOrder(Tail(q), a, lost) /\ LoadsInOrder(Tail(q), a, TRUE)
    BY <1>1, <2>1, OrderTail, OrderWeaker
  <2>2. LoadsInOrder(Tail(q), a, TRUE)
    BY <1>1, <2>1, OrderCases
  <2>3. c \notin astray' => LoadsInOrder(q, a, FALSE)
    <3>1. CASE c \notin astray
      BY <1>1, <3>1, OrderCases
    <3>2. CASE c \in astray /\ c \notin astray'
      <4>1. ~Deletes(c) /\ LoadsInOrder(q, a, TRUE)
        BY <1>1, <3>2, OrderCases
      <4>2. \A i \in 1..Len(q) : NoDrop(q, i)
        BY <1>2, <4>1 DEF Deletes, NoDrop
      <4>. QED
        BY <4>1, <4>2, OrderWeaker
    <3>. QED
      BY <3>1, <3>2
  <2>4. LoadsInOrder(q, a, FALSE) => LoadsInOrder(Tail(q), a, FALSE) /\ About(Tail(q), a, 1, p)
    BY <1>1, <2>1, LoadAtHead DEF p
  <2>5. active'[c] = a
    BY <1>1
  <2>. QED
    BY <1>1, <1>2, <2>2, <2>3, <2>4, <2>5, OrderCasesNext
<1>. QED
  BY <1>3, <1>4 DEF FramesInOrder

(* A load that is refused leaves the client astray, or where it was.         *)
LEMMA OrderRefused ==
  ASSUME TypeOK, FramesInOrder, NEW c \in Clients, queue[c] # <<>>,
         queue' = [queue EXCEPT ![c] = Tail(@)],
         UNCHANGED <<active, up>>, RefuseRestore(c, Head(queue[c]))
  PROVE  FramesInOrder'
<1>. DEFINE p == Head(queue[c]).project
            q == queue[c]
            a == active[c]
<1>1. /\ q \in Seq(Frames) /\ queue'[c] = Tail(q) /\ InOrder(c)
      /\ UNCHANGED <<active, up, home>> /\ Head(q).op = "load"
      /\ astray' = IF p = home THEN astray ELSE astray \cup {c}
  BY DEF TypeOK, FramesInOrder, RefuseRestore
<1>. HIDE DEF p
<1>2. ASSUME NEW d \in Clients, d # c PROVE InOrder(d)'
  <2>1. /\ queue'[d] = queue[d] /\ active'[d] = active[d] /\ up'[d] = up[d] /\ InOrder(d)
        /\ d \in astray => d \in astray'
    BY <1>1, <1>2 DEF TypeOK, FramesInOrder
  <2>. QED
    BY <1>1, <2>1, OrderKept
<1>3. InOrder(c)'
  <2>1. ASSUME NEW lost \in BOOLEAN, LoadsInOrder(q, a, lost)
        PROVE  LoadsInOrder(Tail(q), a, lost) /\ LoadsInOrder(Tail(q), a, TRUE)
    BY <1>1, <2>1, OrderTail, OrderWeaker
  <2>2. LoadsInOrder(Tail(q), a, TRUE)
    BY <1>1, <2>1, OrderCases
  <2>3. c \notin astray' => LoadsInOrder(q, a, FALSE) /\ p = home
    BY <1>1, OrderCases
  <2>4. LoadsInOrder(q, a, FALSE) => LoadsInOrder(Tail(q), a, FALSE) /\ About(Tail(q), a, 1, p)
    BY <1>1, <2>1, LoadAtHead DEF p
  <2>5. up[c] /\ up'[c] = up[c] /\ active'[c] = a /\ home' = home
    BY <1>1, OrderCases
  <2>. QED
    BY <1>1, <2>2, <2>3, <2>4, <2>5, OrderCasesNext
<1>. QED
  BY <1>2, <1>3 DEF FramesInOrder

(* Every step keeps the frames in order. *)
LEMMA OrderStep == TypeOK /\ FramesInOrder /\ [Next]_vars => FramesInOrder'
<1>. SUFFICES ASSUME TypeOK, FramesInOrder, [Next]_vars PROVE FramesInOrder'
  OBVIOUS
<1>1. ASSUME NEW c \in Clients, Connect(c) PROVE FramesInOrder'
  <2>. DEFINE load == Frame("load", active[c], 0)
  <2>1. /\ UNCHANGED <<active, home, astray>> /\ ~up[c]
        /\ up' = [up EXCEPT ![c] = TRUE]
        /\ queue' = [queue EXCEPT ![c] = <<load>>]
    BY <1>1 DEF Connect, history
  <2>2. load \in Frames /\ load.op = "load" /\ load.project = active[c]
    BY FramesSent, FrameFields
  <2>. HIDE DEF load
  <2>3. <<load>> = Append(<<>>, load)
    BY <2>2, TwoBehind, EmptySeq
  <2>4. ASSUME NEW d \in Clients, d # c PROVE InOrder(d)'
    <3>1. queue'[d] = queue[d] /\ up'[d] = up[d] /\ active'[d] = active[d] /\ InOrder(d)
      BY <2>1, <2>4 DEF TypeOK, FramesInOrder
    <3>. QED
      BY <2>1, <3>1, OrderKept
  <2>5. InOrder(c)'
    <3>1. <<>> \in Seq(Frames) /\ queue[c] = <<>> /\ queue'[c] = Append(<<>>, load) /\ InOrder(c)
      BY <2>1, <2>3, EmptySeq, OrderCases DEF TypeOK, FramesInOrder
    <3>2. ASSUME NEW lost \in BOOLEAN PROVE LoadsInOrder(Append(<<>>, load), active[c], lost)
      <4>1. LoadsInOrder(<<>>, active[c], lost)
        BY EmptyOrder
      <4>2. LoadsInOrder(Append(<<>>, load), load.project, lost)
        BY <2>2, <3>1, <4>1, OrderLoad
      <4>. QED
        BY <2>2, <4>2
    <3>3. About(Append(<<>>, load), active[c], 1, home)
      <4>1. About(<<>>, home, 1, home)
        BY EmptyOrder
      <4>3. 1 \in 1..(Len(<<>>) + 1)
        BY EmptySeq
      <4>2. About(Append(<<>>, load), load.project, 1, home)
        BY <2>2, <3>1, <4>1, <4>3, AboutLoad
      <4>. QED
        BY <2>2, <4>2
    <3>4. up'[c] /\ active'[c] = active[c] /\ home' = home
      BY <2>1 DEF TypeOK
    <3>. QED
      BY <3>1, <3>2, <3>3, <3>4, OrderCasesNext
  <2>. QED
    BY <2>4, <2>5 DEF FramesInOrder
<1>2. ASSUME NEW c \in Clients, Disconnect(c) PROVE FramesInOrder'
  <2>1. /\ UNCHANGED <<active, home, astray>>
        /\ up' = [up EXCEPT ![c] = FALSE]
        /\ queue' = [queue EXCEPT ![c] = <<>>]
    BY <1>2 DEF Disconnect
  <2>2. ASSUME NEW d \in Clients, d # c PROVE InOrder(d)'
    <3>1. queue'[d] = queue[d] /\ up'[d] = up[d] /\ active'[d] = active[d] /\ InOrder(d)
      BY <2>1, <2>2 DEF TypeOK, FramesInOrder
    <3>. QED
      BY <2>1, <3>1, OrderKept
  <2>3. InOrder(c)'
    BY <2>1, EmptyOrder, OrderCasesNext DEF TypeOK
  <2>. QED
    BY <2>2, <2>3 DEF FramesInOrder
<1>3. ASSUME NEW c \in Clients, EditCanvas(c) PROVE FramesInOrder'
  <2>1. edits' \in Canvases
    BY <1>3, WorkspaceAssumption DEF EditCanvas, TypeOK, Canvases
  <2>2. Frame("edit", active[c], edits') \in Frames /\ Frame("edit", active[c], edits').op = "edit"
    BY <2>1, FramesSent, FrameFields
  <2>. QED
    BY <1>3, <2>2, OrderSent DEF EditCanvas, history
<1>4. ASSUME NEW c \in Clients, TimerFires(c) PROVE FramesInOrder'
  <2>1. SaveOf(c) \in Frames /\ SaveOf(c).op = "save" /\ SaveOf(c).project = active[c]
    BY FramesSent, FrameFields DEF SaveOf
  <2>. QED
    BY <1>4, <2>1, OrderSent DEF TimerFires
<1>5. ASSUME NEW c \in Clients, AskToRun(c) PROVE FramesInOrder'
  <2>1. /\ Frame("run", active[c], 0) \in Frames /\ Frame("run", active[c], 0).op = "run"
        /\ Frame("run", active[c], 0).project = active[c]
    BY FramesSent, FrameFields
  <2>. QED
    BY <1>5, <2>1, OrderSent DEF AskToRun, clientVars, history
<1>6. ASSUME NEW c \in Clients, Answer(c) PROVE FramesInOrder'
  <2>1. PICK op \in {"accept", "reject"} : Send(c, <<Frame(op, None, offer[c])>>)
    BY <1>6 DEF Answer
  <2>2. Frame(op, None, offer[c]) \in Frames /\ Frame(op, None, offer[c]).op = op
    BY FramesSent, FrameFields
  <2>. QED
    BY <1>6, <2>1, <2>2, OrderSent DEF Answer, history
<1>7. ASSUME NEW c \in Clients, Handle(c) PROVE FramesInOrder'
  <2>. DEFINE f == Head(queue[c])
  <2>1. /\ queue[c] # <<>> /\ queue[c] \in Seq(Frames) /\ InOrder(c)
        /\ queue' = [queue EXCEPT ![c] = Tail(@)]
        /\ UNCHANGED <<active, up>>
    BY <1>7 DEF Handle, TypeOK, FramesInOrder
  <2>2. \/ HandleEdit(c, f) \/ HandleSave(c, f)
        \/ Restore(c, f) \/ RefuseRestore(c, f) \/ Adopt(c, f)
        \/ HandleDelete(c, f) \/ HandleDropGraph(c, f)
        \/ HandleRun(c, f) \/ HandleAccept(c, f) \/ HandleReject(c, f)
    BY <1>7 DEF Handle
  <2>3. CASE Restore(c, f) \/ Adopt(c, f)
    BY <2>1, <2>3, OrderLoaded DEF Restore, Adopt
  <2>4. CASE RefuseRestore(c, f)
    BY <2>1, <2>4, OrderRefused
  <2>5. ASSUME f.op # "load", home' = home, astray \subseteq astray' PROVE FramesInOrder'
    <3>1. ASSUME NEW d \in Clients, d # c PROVE InOrder(d)'
      <4>1. /\ queue'[d] = queue[d] /\ active'[d] = active[d] /\ up'[d] = up[d] /\ InOrder(d)
            /\ d \in astray => d \in astray'
        BY <2>1, <2>5, <3>1 DEF TypeOK, FramesInOrder
      <4>. QED
        BY <2>5, <4>1, OrderKept
    <3>2. InOrder(c)'
      <4>1. queue'[c] = Tail(queue[c]) /\ active'[c] = active[c] /\ up'[c] = up[c]
        BY <2>1 DEF TypeOK
      <4>. QED
        BY <2>1, <2>5, <4>1, OrderHandled
    <3>. QED
      BY <3>1, <3>2 DEF FramesInOrder
  <2>. HIDE DEF f
  <2>6. CASE \/ HandleEdit(c, f) \/ HandleSave(c, f) \/ HandleDelete(c, f) \/ HandleDropGraph(c, f)
             \/ HandleRun(c, f) \/ HandleAccept(c, f) \/ HandleReject(c, f)
    <3>1. f.op # "load" /\ home' = home /\ astray \subseteq astray'
      BY <2>6 DEF HandleEdit, HandleSave, HandleDelete, HandleDropGraph, HandleRun,
                  HandleAccept, HandleReject, history
    <3>. QED
      BY <2>5, <3>1
  <2>. QED
    BY <2>2, <2>3, <2>4, <2>6
<1>8. ASSUME UNCHANGED <<active, up, queue, home, astray>> PROVE FramesInOrder'
  BY <1>8, OrderKept DEF FramesInOrder
<1>9. ASSUME EndRun \/ UNCHANGED vars PROVE FramesInOrder'
  BY <1>8, <1>9 DEF EndRun, history, vars, clientVars
<1>10. ASSUME Restart PROVE FramesInOrder'
  <2>1. \A c \in Clients : up'[c] = FALSE /\ queue'[c] = <<>>
    BY <1>10 DEF Restart
  <2>. QED
    BY <2>1, EmptyOrder, OrderCasesNext DEF FramesInOrder
<1>. QED
  BY <1>1, <1>2, <1>3, <1>4, <1>5, <1>6, <1>7, <1>9, <1>10, OrderSwitched, OrderDeleted DEF Next

-----------------------------------------------------------------------------
(* Every step keeps the edits followed by their saves.                       *)
LEMMA EditsAppend ==
  ASSUME NEW q \in Seq(Frames), NEW t \in BOOLEAN, NEW u \in BOOLEAN, NEW f \in Frames,
         EditsFollowed(q, t), ~t \/ (f.op # "load" /\ (u \/ f.op = "save")),
         f.op = "edit" => u
  PROVE  EditsFollowed(Append(q, f), u)
<1>. DEFINE r == Append(q, f)
<1>1. /\ Len(r) = Len(q) + 1 /\ Len(q) \in Nat /\ r[Len(q) + 1] = f
      /\ \A i \in 1..Len(q) : r[i] = q[i]
  BY AppendProperties
<1>2. ASSUME NEW i \in 1..Len(q), q[i].op = "edit" PROVE SavesFrom(r, u, i)
  <2>1. SavesFrom(q, t, i) /\ i \in 1..(Len(q) + 1)
    BY <1>1, <1>2 DEF EditsFollowed
  <2>. QED
    BY <2>1, SavesAppend
<1>3. ASSUME f.op = "edit" PROVE SavesFrom(r, u, Len(q) + 1)
  <2>1. f.op # "load" /\ u = TRUE
    BY <1>3
  <2>2. SavesFrom(r, TRUE, Len(q) + 1)
    BY <2>1, SavesLast
  <2>. QED
    BY <2>1, <2>2
<1>. HIDE DEF r
<1>4. ASSUME NEW i \in 1..Len(r), r[i].op = "edit" PROVE SavesFrom(r, u, i)
  <2>1. i \in 1..Len(q) \/ i = Len(q) + 1
    BY <1>1
  <2>. QED
    BY <1>1, <1>2, <1>3, <1>4, <2>1
<1>. QED
  BY <1>4 DEF EditsFollowed, r

(* Handling the head of a queue keeps its edits followed by their saves. *)
LEMMA EditsTail ==
  ASSUME NEW q \in Seq(Frames), q # <<>>, NEW t \in BOOLEAN, EditsFollowed(q, t)
  PROVE  EditsFollowed(Tail(q), t)
<1>1. /\ Len(Tail(q)) = Len(q) - 1 /\ Len(q) \in Nat
      /\ \A i \in 1..Len(Tail(q)) : Tail(q)[i] = q[i + 1]
  BY HeadTailProperties, LenProperties
<1>2. ASSUME NEW i \in 1..Len(Tail(q)), Tail(q)[i].op = "edit" PROVE SavesFrom(Tail(q), t, i)
  <2>1. i + 1 \in 1..Len(q) /\ i \in 1..Len(q) /\ q[i + 1].op = "edit"
    BY <1>1, <1>2
  <2>2. SavesFrom(q, t, i + 1)
    BY <2>1 DEF EditsFollowed
  <2>. QED
    BY <2>1, <2>2, SavesTail
<1>. QED
  BY <1>2 DEF EditsFollowed

(* An empty queue has no edits. *)
LEMMA EmptyEdits == ASSUME NEW t \in BOOLEAN PROVE EditsFollowed(<<>>, t)
<1>1. Len(<<>>) = 0 /\ 1..0 = {}
  BY EmptySeq
<1>. QED
  BY <1>1 DEF EditsFollowed

(* A client about to save, before anything it loads.                         *)
Saving(c) == up[c] /\ SavesFrom(queue[c], timer[c], 1)

(* A client that a step does not touch goes on saving. *)
LEMMA SavingKept ==
  ASSUME NEW d, queue'[d] = queue[d], timer'[d] = timer[d], up'[d] = up[d], Saving(d)
  PROVE  Saving(d)'
BY DEF Saving

(* A client that sends a frame, which may be what was pending.               *)
LEMMA SentFollowed ==
  ASSUME TypeOK, TypeOK', FramesInOrder, EditsAreFollowed,
         NEW c \in Clients, NEW f \in Frames, Send(c, <<f>>), UNCHANGED up,
         \A d \in Clients : d # c => timer'[d] = timer[d],
         f.op # "load", timer[c] => timer'[c] \/ f.op = "save", f.op = "edit" => timer'[c]
  PROVE  /\ EditsAreFollowed'
         /\ \A d \in Clients : Saving(d) => Saving(d)'
<1>1. /\ up[c] => queue' = [queue EXCEPT ![c] = Append(@, f)]
      /\ ~up[c] => queue' = queue
  BY SendOne
<1>2. /\ queue[c] \in Seq(Frames) /\ timer[c] \in BOOLEAN /\ timer'[c] \in BOOLEAN
      /\ Len(queue[c]) \in Nat /\ 1 \in 1..(Len(queue[c]) + 1)
  BY LenProperties DEF TypeOK
<1>3. ASSUME NEW d \in Clients, d # c
      PROVE  EditsFollowed(queue'[d], timer'[d]) /\ (Saving(d) => Saving(d)')
  <2>1. queue'[d] = queue[d] /\ timer'[d] = timer[d] /\ EditsFollowed(queue[d], timer[d])
    BY <1>1, <1>3 DEF TypeOK, EditsAreFollowed
  <2>. QED
    BY <2>1, SavingKept
<1>4. ASSUME up[c] PROVE EditsFollowed(queue'[c], timer'[c]) /\ (Saving(c) => Saving(c)')
  <2>1. queue'[c] = Append(queue[c], f) /\ EditsFollowed(queue[c], timer[c])
    BY <1>1, <1>4 DEF TypeOK, EditsAreFollowed
  <2>2. EditsFollowed(Append(queue[c], f), timer'[c])
    BY <1>2, <2>1, EditsAppend
  <2>3. SavesFrom(queue[c], timer[c], 1) => SavesFrom(Append(queue[c], f), timer'[c], 1)
    BY <1>2, SavesAppend
  <2>. QED
    BY <2>1, <2>2, <2>3 DEF Saving
<1>5. ASSUME ~up[c] PROVE EditsFollowed(queue'[c], timer'[c]) /\ (Saving(c) => Saving(c)')
  <2>1. queue'[c] = <<>>
    BY <1>1, <1>5, OrderCases DEF FramesInOrder
  <2>. QED
    BY <1>2, <1>5, <2>1, EmptyEdits DEF Saving
<1>. QED
  BY <1>3, <1>4, <1>5 DEF EditsAreFollowed

(* A client that opens a project, its pending save flushed.                  *)
LEMMA SwitchFollowed ==
  ASSUME TypeOK, FramesInOrder, EditsAreFollowed,
         NEW c \in Clients, NEW p \in Variants, OpenVariant(c, p)
  PROVE  /\ EditsAreFollowed'
         /\ \A d \in Clients : Saving(d) => Saving(d)'
<1>. DEFINE save == SaveOf(c)
            load == Frame("load", p, 0)
            q == queue[c]
<1>1. UNCHANGED up /\ Switch(c, p)
  BY DEF OpenVariant
<1>2. CASE p = active[c]
  <2>1. UNCHANGED <<queue, timer>>
    BY <1>1, <1>2 DEF Switch
  <2>. QED
    BY <1>1, <2>1 DEF EditsAreFollowed, Saving
<1>3. CASE p # active[c]
  <2>1. /\ save \in Frames /\ load \in Frames
        /\ up[c] /\ timer[c] => queue' = [queue EXCEPT ![c] = Append(Append(@, save), load)]
        /\ up[c] /\ ~timer[c] => queue' = [queue EXCEPT ![c] = Append(@, load)]
        /\ ~up[c] => queue' = queue
        /\ timer' = [timer EXCEPT ![c] = FALSE]
    BY <1>1, <1>3, SwitchSends
  <2>2. save.op = "save" /\ load.op = "load"
    BY FrameFields DEF SaveOf
  <2>. HIDE DEF save, load
  <2>3. ASSUME NEW d \in Clients, d # c
        PROVE  EditsFollowed(queue'[d], timer'[d]) /\ (Saving(d) => Saving(d)')
    <3>1. queue'[d] = queue[d] /\ timer'[d] = timer[d] /\ EditsFollowed(queue[d], timer[d])
      BY <2>1, <2>3 DEF TypeOK, EditsAreFollowed
    <3>. QED
      BY <1>1, <3>1, SavingKept
  <2>4. /\ q \in Seq(Frames) /\ timer[c] \in BOOLEAN /\ timer'[c] = FALSE /\ EditsFollowed(q, timer[c])
        /\ Append(q, save) \in Seq(Frames)
        /\ Len(q) \in Nat /\ 1 \in 1..(Len(q) + 1) /\ 1 \in 1..(Len(Append(q, save)) + 1)
    BY <2>1, LenProperties, AppendProperties DEF TypeOK, EditsAreFollowed
  <2>5. ASSUME up[c], timer[c] PROVE EditsFollowed(queue'[c], timer'[c]) /\ (Saving(c) => Saving(c)')
    <3>1. queue'[c] = Append(Append(q, save), load) /\ timer[c] = TRUE
      BY <2>1, <2>4, <2>5 DEF TypeOK
    <3>2. EditsFollowed(Append(q, save), FALSE)
      BY <2>1, <2>2, <2>4, EditsAppend
    <3>3. EditsFollowed(Append(Append(q, save), load), FALSE)
      BY <2>1, <2>2, <2>4, <3>2, EditsAppend
    <3>4. SavesFrom(q, timer[c], 1) => SavesFrom(Append(q, save), FALSE, 1)
      BY <2>1, <2>2, <2>4, SavesAppend
    <3>5. SavesFrom(Append(q, save), FALSE, 1) => SavesFrom(Append(Append(q, save), load), FALSE, 1)
      BY <2>1, <2>2, <2>4, SavesAppend
    <3>. QED
      BY <1>1, <2>4, <3>1, <3>3, <3>4, <3>5 DEF Saving
  <2>6. ASSUME up[c], ~timer[c] PROVE EditsFollowed(queue'[c], timer'[c]) /\ (Saving(c) => Saving(c)')
    <3>1. queue'[c] = Append(q, load) /\ timer[c] = FALSE
      BY <2>1, <2>4, <2>6 DEF TypeOK
    <3>2. EditsFollowed(q, FALSE)
      BY <2>4, <3>1
    <3>3. EditsFollowed(Append(q, load), FALSE)
      BY <2>1, <2>2, <2>4, <3>2, EditsAppend
    <3>4. SavesFrom(q, FALSE, 1) => SavesFrom(Append(q, load), FALSE, 1)
      BY <2>1, <2>2, <2>4, SavesAppend
    <3>. QED
      BY <1>1, <2>4, <3>1, <3>3, <3>4 DEF Saving
  <2>7. ASSUME ~up[c] PROVE EditsFollowed(queue'[c], timer'[c]) /\ (Saving(c) => Saving(c)')
    <3>1. queue'[c] = <<>>
      BY <2>1, <2>7, OrderCases DEF FramesInOrder
    <3>. QED
      BY <2>4, <2>7, <3>1, EmptyEdits DEF Saving
  <2>. QED
    BY <2>3, <2>5, <2>6, <2>7 DEF EditsAreFollowed
<1>. QED
  BY <1>2, <1>3

(* A client that deletes a variant.                                          *)
LEMMA DeleteFollowed ==
  ASSUME TypeOK, FramesInOrder, EditsAreFollowed,
         NEW c \in Clients, NEW p \in Variants, DeleteVariant(c, p)
  PROVE  /\ EditsAreFollowed'
         /\ \A d \in Clients : Saving(d) => Saving(d)'
<1>. DEFINE delete == Frame("delete", p, 0)
            drop == Frame("dropGraph", p, 0)
            q == queue[c]
<1>1. UNCHANGED <<up, timer>> /\ Send(c, <<delete, drop>>)
  BY DEF DeleteVariant
<1>2. /\ delete \in Frames /\ drop \in Frames
      /\ delete.op = "delete" /\ drop.op = "dropGraph"
  BY FramesSent, FrameFields DEF Projects
<1>. HIDE DEF delete, drop
<1>3. /\ up[c] => queue' = [queue EXCEPT ![c] = Append(Append(@, delete), drop)]
      /\ ~up[c] => queue' = queue
  BY <1>1, <1>2, SendTwo
<1>4. ASSUME NEW d \in Clients, d # c
      PROVE  EditsFollowed(queue'[d], timer'[d]) /\ (Saving(d) => Saving(d)')
  <2>1. queue'[d] = queue[d] /\ timer'[d] = timer[d] /\ EditsFollowed(queue[d], timer[d])
    BY <1>1, <1>3, <1>4 DEF TypeOK, EditsAreFollowed
  <2>. QED
    BY <1>1, <2>1, SavingKept
<1>5. /\ q \in Seq(Frames) /\ timer[c] \in BOOLEAN /\ timer'[c] = timer[c] /\ EditsFollowed(q, timer[c])
      /\ Append(q, delete) \in Seq(Frames)
      /\ Len(q) \in Nat /\ 1 \in 1..(Len(q) + 1) /\ 1 \in 1..(Len(Append(q, delete)) + 1)
  BY <1>1, <1>2, LenProperties, AppendProperties DEF TypeOK, EditsAreFollowed
<1>6. ASSUME up[c] PROVE EditsFollowed(queue'[c], timer'[c]) /\ (Saving(c) => Saving(c)')
  <2>1. queue'[c] = Append(Append(q, delete), drop)
    BY <1>3, <1>6 DEF TypeOK
  <2>2. EditsFollowed(Append(q, delete), timer[c])
    BY <1>2, <1>5, EditsAppend
  <2>3. EditsFollowed(Append(Append(q, delete), drop), timer[c])
    BY <1>2, <1>5, <2>2, EditsAppend
  <2>4. SavesFrom(q, timer[c], 1) => SavesFrom(Append(q, delete), timer[c], 1)
    BY <1>2, <1>5, SavesAppend
  <2>5. SavesFrom(Append(q, delete), timer[c], 1) => SavesFrom(Append(Append(q, delete), drop), timer[c], 1)
    BY <1>2, <1>5, SavesAppend
  <2>. QED
    BY <1>1, <1>5, <2>1, <2>3, <2>4, <2>5 DEF Saving
<1>7. ASSUME ~up[c] PROVE EditsFollowed(queue'[c], timer'[c]) /\ (Saving(c) => Saving(c)')
  <2>1. queue'[c] = <<>>
    BY <1>3, <1>7, OrderCases DEF FramesInOrder
  <2>. QED
    BY <1>5, <1>7, <2>1, EmptyEdits DEF Saving
<1>. QED
  BY <1>4, <1>6, <1>7 DEF EditsAreFollowed

(* What a client does of its own accord, while it stays connected or not.    *)
ClientSends(c) ==
  \/ EditCanvas(c) \/ TimerFires(c)
  \/ \E p \in Variants : OpenVariant(c, p) \/ DeleteVariant(c, p)
  \/ AskToRun(c) \/ Answer(c)

(* What a client sends is followed by its save. *)
LEMMA SendsFollowed ==
  ASSUME TypeOK, TypeOK', FramesInOrder, EditsAreFollowed, NEW c \in Clients, ClientSends(c)
  PROVE  /\ EditsAreFollowed'
         /\ \A d \in Clients : Saving(d) => Saving(d)'
<1>. DEFINE Goal == /\ EditsAreFollowed'
                    /\ \A d \in Clients : Saving(d) => Saving(d)'
<1>1. ASSUME EditCanvas(c) PROVE Goal
  <2>1. edits' \in Canvases
    BY DEF TypeOK
  <2>2. Frame("edit", active[c], edits') \in Frames /\ Frame("edit", active[c], edits').op = "edit"
    BY <2>1, FramesSent, FrameFields
  <2>3. /\ timer'[c] = TRUE /\ UNCHANGED up
        /\ \A d \in Clients : d # c => timer'[d] = timer[d]
        /\ Send(c, <<Frame("edit", active[c], edits')>>)
    BY <1>1 DEF EditCanvas, TypeOK
  <2>. QED
    BY <2>2, <2>3, SentFollowed
<1>2. ASSUME TimerFires(c) PROVE Goal
  <2>1. SaveOf(c) \in Frames /\ SaveOf(c).op = "save"
    BY FramesSent, FrameFields DEF SaveOf
  <2>2. /\ \A d \in Clients : d # c => timer'[d] = timer[d]
        /\ UNCHANGED up /\ Send(c, <<SaveOf(c)>>)
    BY <1>2 DEF TimerFires, TypeOK
  <2>. QED
    BY <2>1, <2>2, SentFollowed
<1>3. ASSUME AskToRun(c) PROVE Goal
  <2>1. Frame("run", active[c], 0) \in Frames /\ Frame("run", active[c], 0).op = "run"
    BY FramesSent, FrameFields
  <2>2. UNCHANGED <<timer, up>> /\ Send(c, <<Frame("run", active[c], 0)>>)
    BY <1>3 DEF AskToRun, clientVars
  <2>. QED
    BY <2>1, <2>2, SentFollowed
<1>4. ASSUME Answer(c) PROVE Goal
  <2>1. PICK op \in {"accept", "reject"} : Send(c, <<Frame(op, None, offer[c])>>)
    BY <1>4 DEF Answer
  <2>2. Frame(op, None, offer[c]) \in Frames /\ Frame(op, None, offer[c]).op = op
    BY FramesSent, FrameFields
  <2>3. UNCHANGED <<timer, up>>
    BY <1>4 DEF Answer
  <2>. QED
    BY <2>1, <2>2, <2>3, SentFollowed
<1>. QED
  BY <1>1, <1>2, <1>3, <1>4, SwitchFollowed, DeleteFollowed DEF ClientSends

(* Every step keeps edits followed by their saves. *)
LEMMA EditsStep ==
  TypeOK /\ TypeOK' /\ FramesInOrder /\ EditsAreFollowed /\ [Next]_vars => EditsAreFollowed'
<1>. SUFFICES ASSUME TypeOK, TypeOK', FramesInOrder, EditsAreFollowed, [Next]_vars
              PROVE  EditsAreFollowed'
  OBVIOUS
<1>. USE DEF EditsAreFollowed
<1>1. ASSUME NEW c \in Clients, Connect(c) PROVE EditsAreFollowed'
  <2>. DEFINE load == Frame("load", active[c], 0)
  <2>1. UNCHANGED timer /\ queue' = [queue EXCEPT ![c] = <<load>>]
    BY <1>1 DEF Connect
  <2>2. load \in Frames /\ load.op = "load"
    BY FramesSent, FrameFields
  <2>. HIDE DEF load
  <2>3. <<load>> = Append(<<>>, load) /\ <<>> \in Seq(Frames)
    BY <2>2, TwoBehind, EmptySeq
  <2>4. EditsFollowed(<<>>, FALSE) /\ timer[c] \in BOOLEAN
    BY EmptyEdits DEF TypeOK
  <2>5. EditsFollowed(Append(<<>>, load), timer[c])
    BY <2>2, <2>3, <2>4, EditsAppend
  <2>. QED
    BY <2>1, <2>3, <2>5 DEF TypeOK
<1>2. ASSUME NEW c \in Clients, Disconnect(c) PROVE EditsAreFollowed'
  <2>1. UNCHANGED timer /\ queue' = [queue EXCEPT ![c] = <<>>] /\ timer[c] \in BOOLEAN
    BY <1>2 DEF Disconnect, TypeOK
  <2>2. EditsFollowed(<<>>, timer[c])
    BY <2>1, EmptyEdits
  <2>. QED
    BY <2>1, <2>2 DEF TypeOK
<1>3. ASSUME NEW c \in Clients, Handle(c) PROVE EditsAreFollowed'
  <2>1. /\ queue[c] # <<>> /\ queue[c] \in Seq(Frames) /\ timer[c] \in BOOLEAN
        /\ queue' = [queue EXCEPT ![c] = Tail(@)]
        /\ UNCHANGED timer
    BY <1>3 DEF Handle, TypeOK
  <2>2. EditsFollowed(Tail(queue[c]), timer[c])
    BY <2>1, EditsTail
  <2>. QED
    BY <2>1, <2>2 DEF TypeOK
<1>4. ASSUME EndRun \/ UNCHANGED vars PROVE EditsAreFollowed'
  BY <1>4 DEF EndRun, vars, clientVars
<1>5. ASSUME Restart PROVE EditsAreFollowed'
  <2>1. \A c \in Clients : queue'[c] = <<>> /\ timer'[c] \in BOOLEAN
    BY <1>5 DEF Restart, TypeOK
  <2>. QED
    BY <2>1, EmptyEdits
<1>. QED
  BY <1>1, <1>2, <1>3, <1>4, <1>5, SendsFollowed DEF Next, ClientSends

-----------------------------------------------------------------------------
(* Every step keeps a cause for a canvas that is not stored.                 *)
LEMMA HeadAppend ==
  ASSUME NEW q \in Seq(Frames), q # <<>>, NEW f \in Frames
  PROVE  Append(q, f) # <<>> /\ Head(Append(q, f)) = Head(q) /\ Append(q, f) \in Seq(Frames)
<1>1. Len(q) \in Nat /\ Len(q) >= 1 /\ Head(q) = q[1]
  BY LenProperties, HeadTailProperties
<1>2. Append(q, f) \in Seq(Frames) /\ Len(Append(q, f)) = Len(q) + 1 /\ Append(q, f)[1] = q[1]
  BY <1>1, AppendProperties
<1>3. Append(q, f) # <<>>
  BY <1>1, <1>2, EmptySeq
<1>. QED
  BY <1>1, <1>2, <1>3

(* What is sent to a coordinator that is untouched comes after the loads.    *)
LEMMA SendsUntouched ==
  ASSUME TypeOK, NEW c \in Clients, ClientSends(c), Untouched PROVE Untouched'
<1>1. UNCHANGED <<up, canvas, run>>
  BY DEF ClientSends, EditCanvas, TimerFires, OpenVariant, DeleteVariant, AskToRun, Answer,
         clientVars, serverVars
<1>2. \/ queue' = queue
      \/ \E f \in Frames : queue' = [queue EXCEPT ![c] = Append(@, f)] /\ up[c]
      \/ \E f, g \in Frames : queue' = [queue EXCEPT ![c] = Append(Append(@, f), g)] /\ up[c]
  <2>. DEFINE Goal == \/ queue' = queue
                      \/ \E f \in Frames : queue' = [queue EXCEPT ![c] = Append(@, f)] /\ up[c]
                      \/ \E f, g \in Frames : queue' = [queue EXCEPT ![c] = Append(Append(@, f), g)] /\ up[c]
  <2>1. ASSUME NEW f \in Frames, Send(c, <<f>>) PROVE Goal
    BY <2>1, SendOne
  <2>2. ASSUME EditCanvas(c) PROVE Goal
    <3>1. edits' \in Canvases
      BY <2>2, WorkspaceAssumption DEF EditCanvas, TypeOK, Canvases
    <3>2. Frame("edit", active[c], edits') \in Frames
      BY <3>1, FramesSent
    <3>. QED
      BY <2>1, <2>2, <3>2 DEF EditCanvas
  <2>3. ASSUME TimerFires(c) \/ AskToRun(c) PROVE Goal
    BY <2>1, <2>3, FramesSent DEF TimerFires, AskToRun
  <2>4. ASSUME Answer(c) PROVE Goal
    BY <2>1, <2>4, FramesSent DEF Answer
  <2>5. ASSUME NEW p \in Variants, OpenVariant(c, p) PROVE Goal
    <3>1. CASE p = active[c]
      BY <2>5, <3>1 DEF OpenVariant, Switch
    <3>2. CASE p # active[c]
      BY <2>5, <3>2, SwitchSends DEF OpenVariant
    <3>. QED
      BY <3>1, <3>2
  <2>6. ASSUME NEW p \in Variants, DeleteVariant(c, p) PROVE Goal
    <3>1. Frame("delete", p, 0) \in Frames /\ Frame("dropGraph", p, 0) \in Frames
      BY FramesSent DEF Projects
    <3>. QED
      BY <2>6, <3>1, SendTwo DEF DeleteVariant
  <2>. HIDE DEF Goal
  <2>7. Goal
    BY <2>2, <2>3, <2>4, <2>5, <2>6 DEF ClientSends
  <2>. QED
    BY <2>7 DEF Goal
<1>3. ASSUME NEW d \in Clients, up[d] PROVE queue'[d] # <<>> /\ Head(queue'[d]).op = "load"
  <2>1. queue[d] # <<>> /\ Head(queue[d]).op = "load" /\ queue[d] \in Seq(Frames)
    BY <1>3 DEF Untouched, TypeOK
  <2>2. \/ queue'[d] = queue[d]
        \/ \E f \in Frames : queue'[d] = Append(queue[d], f)
        \/ \E f, g \in Frames : queue'[d] = Append(Append(queue[d], f), g)
    <3>1. \A q : queue' = [queue EXCEPT ![c] = q] => queue'[d] = IF d = c THEN q ELSE queue[d]
      BY DEF TypeOK
    <3>2. ASSUME NEW f \in Frames, queue' = [queue EXCEPT ![c] = Append(@, f)]
          PROVE  queue'[d] \in {queue[d], Append(queue[d], f)}
      BY <3>1, <3>2
    <3>3. ASSUME NEW f \in Frames, NEW g \in Frames, queue' = [queue EXCEPT ![c] = Append(Append(@, f), g)]
          PROVE  queue'[d] \in {queue[d], Append(Append(queue[d], f), g)}
      BY <3>1, <3>3
    <3>. QED
      BY <1>2, <3>2, <3>3
  <2>. QED
    BY <2>1, <2>2, HeadAppend
<1>. QED
  BY <1>1, <1>3 DEF Untouched

(* The cause, as what must be found when the canvas is not stored.           *)
LEMMA CauseOf ==
  UnsavedHasCause <=>
    (astray = {} /\ ~unsaved /\ store[home] # canvas => Untouched \/ \E d \in Clients : Saving(d))
BY DEF UnsavedHasCause, Saving

(* What is handled of a client's queue.                                      *)
LEMMA HeadOfClient ==
  ASSUME TypeOK, FramesInOrder, EditsAreFollowed, NEW c \in Clients, queue[c] # <<>>,
         queue' = [queue EXCEPT ![c] = Tail(@)], UNCHANGED <<timer, up>>
  PROVE  /\ queue[c] \in Seq(Frames) /\ up[c]
         /\ Head(queue[c]).op # "load" => ~Untouched
         /\ Head(queue[c]).op = "edit" => Saving(c)'
         /\ Saving(c) => Head(queue[c]).op # "load"
         /\ \A d \in Clients : Saving(d) /\ (d = c => Head(queue[c]).op # "save") => Saving(d)'
         /\ c \notin astray => /\ Head(queue[c]).op \in {"save", "run"} => Head(queue[c]).project = home
                               /\ Head(queue[c]).op = "dropGraph" => Head(queue[c]).project # home
<1>. DEFINE q == queue[c]
<1>1. /\ q \in Seq(Frames) /\ timer[c] \in BOOLEAN /\ InOrder(c) /\ EditsFollowed(q, timer[c])
      /\ queue'[c] = Tail(q) /\ timer'[c] = timer[c] /\ up'[c] = up[c]
  BY DEF TypeOK, FramesInOrder, EditsAreFollowed
<1>2. up[c]
  BY <1>1, OrderCases
<1>3. SavesFrom(q, timer[c], 1) => /\ Head(q).op # "load"
                                   /\ Head(q).op # "save" => SavesFrom(Tail(q), timer[c], 1)
  BY <1>1, SavesHead
<1>4. Head(q).op = "edit" => SavesFrom(q, timer[c], 1)
  <2>1. Len(q) \in Nat /\ Len(q) >= 1 /\ Head(q) = q[1]
    BY <1>1, LenProperties, HeadTailProperties
  <2>. QED
    BY <1>1, <2>1 DEF EditsFollowed
<1>5. Head(q).op # "load" => ~Untouched
  BY <1>2 DEF Untouched
<1>6. ASSUME NEW d \in Clients, Saving(d), d = c => Head(q).op # "save" PROVE Saving(d)'
  <2>1. CASE d = c
    BY <1>1, <1>3, <1>6, <2>1 DEF Saving
  <2>2. CASE d # c
    <3>1. queue'[d] = queue[d]
      BY <2>2 DEF TypeOK
    <3>. QED
      BY <1>6, <3>1, SavingKept
  <2>. QED
    BY <2>1, <2>2
<1>7. Head(q).op = "edit" => Saving(c)'
  BY <1>1, <1>2, <1>3, <1>4 DEF Saving
<1>8. Saving(c) => Head(q).op # "load"
  BY <1>3 DEF Saving
<1>9. c \notin astray => /\ Head(q).op \in {"save", "run"} => Head(q).project = home
                         /\ Head(q).op = "dropGraph" => Head(q).project # home
  BY <1>1, <1>2, OrderCases, AboutHead
<1>. QED
  BY <1>1, <1>2, <1>5, <1>6, <1>7, <1>8, <1>9

(* When a handler leaves a canvas that is not stored, somebody is saving it. *)
LEMMA CauseHandled ==
  ASSUME TypeOK, FramesInOrder, EditsAreFollowed, UnsavedHasCause, NEW c \in Clients, Handle(c),
         astray' = {}, ~unsaved', store'[home'] # canvas'
  PROVE  Untouched' \/ \E d \in Clients : Saving(d)'
<1>. DEFINE f == Head(queue[c])
<1>1. /\ queue[c] # <<>> /\ queue' = [queue EXCEPT ![c] = Tail(@)]
      /\ UNCHANGED <<timer, up>>
  BY DEF Handle
<1>2. /\ f.op # "load" => ~Untouched
      /\ f.op = "edit" => Saving(c)'
      /\ Saving(c) => f.op # "load"
      /\ \A d \in Clients : Saving(d) /\ (d = c => f.op # "save") => Saving(d)'
      /\ c \notin astray => /\ f.op \in {"save", "run"} => f.project = home
                            /\ f.op = "dropGraph" => f.project # home
      /\ f \in Frames
  BY <1>1, HeadOfClient, QueueTail
<1>3. \/ HandleEdit(c, f) \/ HandleSave(c, f)
      \/ Restore(c, f) \/ RefuseRestore(c, f) \/ Adopt(c, f)
      \/ HandleDelete(c, f) \/ HandleDropGraph(c, f)
      \/ HandleRun(c, f) \/ HandleAccept(c, f) \/ HandleReject(c, f)
  BY DEF Handle
<1>. HIDE DEF f
<1>4. CASE HandleEdit(c, f)
  BY <1>2, <1>4 DEF HandleEdit
<1>5. CASE HandleSave(c, f)
  <2>1. astray = {} /\ f.op = "save" /\ home' = home /\ canvas' = canvas
        /\ store' = [store EXCEPT ![f.project] = canvas]
    BY <1>5 DEF HandleSave, SaveGraph
  <2>2. f.project = home
    BY <1>2, <2>1
  <2>. QED
    BY <2>1, <2>2 DEF TypeOK
<1>6. CASE Restore(c, f)
  BY <1>6 DEF Restore, LoadGraph
<1>7. CASE Adopt(c, f)
  <2>1. f.project \in Projects
    BY <1>2, <1>7, FramesHold DEF Adopt
  <2>. QED
    BY <1>7, <2>1 DEF Adopt, SaveGraph, TypeOK
<1>8. ASSUME astray = {}, ~unsaved, store[home] # canvas, f.op # "save", ~Untouched
      PROVE  \E d \in Clients : Saving(d)'
  BY <1>2, <1>8, CauseOf
<1>9. CASE RefuseRestore(c, f)
  <2>1. /\ f.op = "load" /\ run # None /\ UNCHANGED <<store, home, canvas, unsaved>>
        /\ astray' = IF f.project = home THEN astray ELSE astray \cup {c}
    BY <1>9 DEF RefuseRestore, serverVars
  <2>. QED
    BY <1>8, <2>1 DEF Untouched
<1>10. CASE HandleDropGraph(c, f)
  <2>1. /\ f.op = "dropGraph" /\ UNCHANGED <<home, canvas, unsaved>> /\ astray \subseteq astray'
        /\ store' = [store EXCEPT ![f.project] = None]
    BY <1>10 DEF HandleDropGraph
  <2>2. astray = {} /\ f.project # home
    BY <1>2, <2>1
  <2>3. store'[home] = store[home]
    BY <2>1, <2>2 DEF TypeOK
  <2>. QED
    BY <1>2, <1>8, <2>1, <2>2, <2>3
<1>11. CASE HandleDelete(c, f) \/ HandleRun(c, f) \/ HandleAccept(c, f) \/ HandleReject(c, f)
  <2>1. f.op \in {"delete", "run", "accept", "reject"} /\ UNCHANGED <<store, home, canvas, unsaved, astray>>
    BY <1>11 DEF HandleDelete, HandleRun, HandleAccept, HandleReject, history
  <2>. QED
    BY <1>2, <1>8, <2>1
<1>. QED
  BY <1>3, <1>4, <1>5, <1>6, <1>7, <1>9, <1>10, <1>11

(* Every step leaves a canvas stored or somebody saving it. *)
LEMMA CauseStep ==
  TypeOK /\ TypeOK' /\ FramesInOrder /\ EditsAreFollowed /\ UnsavedHasCause /\ [Next]_vars
    => UnsavedHasCause'
<1>. SUFFICES ASSUME TypeOK, TypeOK', FramesInOrder, EditsAreFollowed, UnsavedHasCause, [Next]_vars,
                     astray' = {}, ~unsaved', store'[home'] # canvas'
              PROVE  Untouched' \/ \E d \in Clients : Saving(d)'
  BY DEF UnsavedHasCause, Saving
<1>. DEFINE Goal == Untouched' \/ \E d \in Clients : Saving(d)'
<1>1. ASSUME astray = {}, ~unsaved, store[home] # canvas,
             Untouched => Untouched', \A d \in Clients : Saving(d) => Saving(d)'
      PROVE  Goal
  BY <1>1, CauseOf
<1>2. ASSUME NEW c \in Clients, Connect(c) PROVE Goal
  <2>1. /\ UNCHANGED <<timer, canvas, run, store, home, astray, unsaved>> /\ ~up[c]
        /\ up' = [up EXCEPT ![c] = TRUE]
        /\ queue' = [queue EXCEPT ![c] = <<Frame("load", active[c], 0)>>]
    BY <1>2 DEF Connect, history, serverVars
  <2>2. queue'[c] # <<>> /\ Head(queue'[c]).op = "load"
    <3>1. \A f : <<f>> # <<>> /\ Head(<<f>>) = f
      OBVIOUS
    <3>. QED
      BY <2>1, <3>1, FrameFields DEF TypeOK
  <2>3. \A d \in Clients \ {c} : queue'[d] = queue[d] /\ up'[d] = up[d]
    BY <2>1 DEF TypeOK
  <2>4. Untouched => Untouched'
    BY <2>1, <2>2, <2>3 DEF Untouched
  <2>5. ASSUME NEW d \in Clients, Saving(d) PROVE Saving(d)'
    <3>1. d # c
      BY <2>1, <2>5 DEF Saving
    <3>. QED
      BY <2>1, <2>3, <2>5, <3>1, SavingKept
  <2>. QED
    BY <1>1, <2>1, <2>4, <2>5
<1>3. ASSUME NEW c \in Clients, Disconnect(c) PROVE Goal
  <2>1. /\ UNCHANGED <<timer, canvas, run, store, home, astray>>
        /\ up' = [up EXCEPT ![c] = FALSE]
        /\ queue' = [queue EXCEPT ![c] = <<>>]
        /\ ~unsaved /\ ~timer[c] /\ ~SavesIn(queue[c])
    BY <1>3 DEF Disconnect, serverVars
  <2>2. \A d \in Clients \ {c} : queue'[d] = queue[d] /\ up'[d] = up[d]
    BY <2>1 DEF TypeOK
  <2>3. Untouched => Untouched'
    BY <2>1, <2>2 DEF Untouched, TypeOK
  <2>4. ~Saving(c)
    <3>1. DOMAIN queue[c] = 1..Len(queue[c])
      BY LenProperties DEF TypeOK
    <3>. QED
      BY <2>1, <3>1 DEF Saving, SavesFrom, SavesIn
  <2>5. ASSUME NEW d \in Clients, Saving(d) PROVE Saving(d)'
    <3>1. d # c
      BY <2>4, <2>5
    <3>. QED
      BY <2>1, <2>2, <2>5, <3>1, SavingKept
  <2>. QED
    BY <1>1, <2>1, <2>3, <2>5
<1>4. ASSUME NEW c \in Clients, ClientSends(c) PROVE Goal
  <2>1. UNCHANGED <<store, home, canvas>> /\ ~unsaved /\ astray = {}
    <3>. DEFINE Fact == UNCHANGED <<store, home, canvas>> /\ ~unsaved /\ astray = {}
    <3>1. ASSUME TimerFires(c) PROVE Fact
      <4>1. UNCHANGED <<store, home, canvas, astray>> /\ unsaved' = (unsaved \/ ~up[c])
        BY <3>1 DEF TimerFires, serverVars
      <4>. QED
        BY <4>1
    <3>2. ASSUME NEW p \in Variants, OpenVariant(c, p) PROVE Fact
      <4>1. UNCHANGED <<store, home, canvas, astray>> /\ Switch(c, p)
        BY <3>2 DEF OpenVariant, serverVars
      <4>2. unsaved' = unsaved \/ unsaved' = (unsaved \/ (timer[c] /\ ~up[c]))
        BY <4>1 DEF Switch
      <4>3. CASE unsaved' = unsaved
        BY <4>1, <4>3
      <4>4. CASE unsaved' = (unsaved \/ (timer[c] /\ ~up[c]))
        BY <4>1, <4>4
      <4>. QED
        BY <4>2, <4>3, <4>4
    <3>3. ASSUME NEW p \in Variants, DeleteVariant(c, p) PROVE Fact
      BY <3>3 DEF DeleteVariant, serverVars
    <3>4. ASSUME EditCanvas(c) \/ AskToRun(c) \/ Answer(c) PROVE Fact
      BY <3>4 DEF EditCanvas, AskToRun, Answer, serverVars, history
    <3>. QED
      BY <1>4, <3>1, <3>2, <3>3, <3>4 DEF ClientSends
  <2>. QED
    BY <1>1, <1>4, <2>1, SendsFollowed, SendsUntouched
<1>5. ASSUME EndRun PROVE Goal
  <2>1. UNCHANGED <<timer, up, queue, canvas, store, home, astray, unsaved>> /\ run # None
    BY <1>5 DEF EndRun, history
  <2>2. ~Untouched /\ \A d \in Clients : Saving(d) => Saving(d)'
    BY <2>1, SavingKept DEF Untouched
  <2>. QED
    BY <1>1, <2>1, <2>2
<1>6. ASSUME UNCHANGED vars PROVE Goal
  <2>1. UNCHANGED <<timer, up, queue, canvas, run, store, home, astray, unsaved>>
    BY <1>6 DEF vars, clientVars, serverVars, history
  <2>. QED
    BY <1>1, <2>1, SavingKept DEF Untouched
<1>7. ASSUME Restart PROVE Goal
  BY <1>7 DEF Restart, Untouched, LoadGraph
<1>. QED
  BY <1>2, <1>3, <1>4, <1>5, <1>6, <1>7, CauseHandled DEF Next, ClientSends

-----------------------------------------------------------------------------
(* Every step keeps the results with the projects they were started on: a    *)
(* number given to a run is not given again.                                 *)
LEMMA StartedKept ==
  ASSUME TypeOK,
         \/ UNCHANGED <<runs, results>>
         \/ runs' = runs + 1 /\ \A n \in 1..runs : results'[n] = results[n],
         NEW p, NEW n, StartedOn(p, n)
  PROVE  StartedOn(p, n)'
<1>1. n \in 1..runs /\ runs \in Nat /\ (results[n].astray \/ p = results[n].home)
  BY WorkspaceAssumption DEF StartedOn, TypeOK
<1>2. n \in 1..runs' /\ results'[n] = results[n]
  BY <1>1
<1>. QED
  BY <1>1, <1>2 DEF StartedOn

(* Steps that leave run, proposals and models alone keep their projects. *)
LEMMA ResultsKept ==
  ASSUME TypeOK, ResultsFollowRuns, UNCHANGED <<run, pending, models>>,
         \/ UNCHANGED <<runs, results>>
         \/ runs' = runs + 1 /\ \A n \in 1..runs : results'[n] = results[n]
  PROVE  ResultsFollowRuns'
BY StartedKept DEF ResultsFollowRuns

(* A handler keeps the projects of results. *)
LEMMA ResultsHandled ==
  ASSUME TypeOK, TypeOK', FramesInOrder, EditsAreFollowed, ResultsFollowRuns,
         NEW c \in Clients, Handle(c)
  PROVE  ResultsFollowRuns'
<1>. DEFINE f == Head(queue[c])
<1>1. c \notin astray => (f.op \in {"save", "run"} => f.project = home)
  BY HeadOfClient DEF Handle
<1>2. \/ HandleEdit(c, f) \/ HandleSave(c, f)
      \/ Restore(c, f) \/ RefuseRestore(c, f) \/ Adopt(c, f)
      \/ HandleDelete(c, f) \/ HandleDropGraph(c, f)
      \/ HandleRun(c, f) \/ HandleAccept(c, f) \/ HandleReject(c, f)
  BY DEF Handle
<1>. HIDE DEF f
<1>3. ASSUME UNCHANGED <<run, pending, models, runs, results>> PROVE ResultsFollowRuns'
  BY <1>3, ResultsKept
<1>4. CASE \/ HandleEdit(c, f) \/ HandleSave(c, f) \/ Restore(c, f) \/ RefuseRestore(c, f)
           \/ Adopt(c, f) \/ HandleDelete(c, f) \/ HandleDropGraph(c, f)
  <2>1. UNCHANGED <<run, pending, models, runs, results>>
    BY <1>4 DEF HandleEdit, HandleSave, Restore, RefuseRestore, Adopt, HandleDelete,
                HandleDropGraph, history, serverVars
  <2>. QED
    BY <1>3, <2>1
<1>5. CASE HandleRun(c, f)
  <2>1. CASE UNCHANGED <<run, runs, results>>
    BY <1>3, <1>5, <2>1 DEF HandleRun
  <2>2. CASE /\ run = None /\ runs < MaxRuns
             /\ runs' = runs + 1
             /\ run' = [project |-> f.project, n |-> runs']
             /\ results' = [results EXCEPT ![runs'] = [home |-> home, astray |-> c \in astray]]
    <3>1. /\ runs \in Nat /\ runs' \in 1..runs' /\ runs' \in 1..MaxRuns /\ UNCHANGED <<pending, models>>
          /\ f.op = "run"
      BY <1>5, <2>2, WorkspaceAssumption DEF HandleRun, TypeOK
    <3>2. \A n \in 1..runs : results'[n] = results[n]
      <4>1. \A n \in 1..runs : n \in 1..MaxRuns /\ n # runs'
        BY <2>2, <3>1, WorkspaceAssumption
      <4>. QED
        BY <2>2, <4>1 DEF TypeOK
    <3>3. results'[runs'].home = home /\ results'[runs'].astray = (c \in astray)
      BY <2>2, <3>1 DEF TypeOK
    <3>4. results'[runs'].astray \/ f.project = results'[runs'].home
      <4>1. CASE c \in astray
        BY <3>3, <4>1
      <4>2. CASE c \notin astray
        BY <1>1, <3>1, <3>3, <4>2
      <4>. QED
        BY <4>1, <4>2
    <3>5. StartedOn(run.project, run.n)'
      <4>1. run'.project = f.project /\ run'.n = runs'
        BY <2>2
      <4>. QED
        BY <3>1, <3>4, <4>1 DEF StartedOn
    <3>6. \A p, n : StartedOn(p, n) => StartedOn(p, n)'
      BY <2>2, <3>2, StartedKept
    <3>. QED
      BY <3>1, <3>5, <3>6 DEF ResultsFollowRuns
  <2>. QED
    BY <1>5, <2>1, <2>2 DEF HandleRun
<1>6. CASE HandleAccept(c, f)
  <2>1. /\ UNCHANGED <<run, runs, results>> /\ pending' \subseteq pending
        /\ models' = [v \in Variants |->
             IF \E p \in pending : p.n = f.n /\ p.project = v /\ v \in variants THEN f.n ELSE models[v]]
    BY <1>6 DEF HandleAccept, history
  <2>2. \A p, n : StartedOn(p, n) => StartedOn(p, n)'
    BY <2>1, StartedKept
  <2>3. ASSUME NEW v \in Variants, models'[v] # 0 PROVE StartedOn(v, models[v])'
    <3>1. CASE \E p \in pending : p.n = f.n /\ p.project = v /\ v \in variants
      <4>1. PICK p \in pending : p.n = f.n /\ p.project = v
        BY <3>1
      <4>2. StartedOn(v, f.n) /\ models'[v] = f.n
        BY <2>1, <3>1, <4>1 DEF ResultsFollowRuns
      <4>3. PICK n : n = f.n
        OBVIOUS
      <4>4. StartedOn(v, n)'
        BY <2>2, <4>2, <4>3
      <4>. QED
        BY <4>2, <4>3, <4>4 DEF StartedOn
    <3>2. CASE ~\E p \in pending : p.n = f.n /\ p.project = v /\ v \in variants
      <4>1. models'[v] = models[v]
        BY <2>1, <3>2
      <4>2. PICK n : n = models[v]
        OBVIOUS
      <4>3. StartedOn(v, n)
        BY <2>3, <4>1, <4>2 DEF ResultsFollowRuns
      <4>4. StartedOn(v, n)'
        BY <2>2, <4>3
      <4>. QED
        BY <4>1, <4>2, <4>4 DEF StartedOn
    <3>. QED
      BY <3>1, <3>2
  <2>. QED
    BY <2>1, <2>2, <2>3 DEF ResultsFollowRuns
<1>7. CASE HandleReject(c, f)
  <2>1. UNCHANGED <<run, runs, results, models>> /\ pending' \subseteq pending
    BY <1>7 DEF HandleReject, history
  <2>2. \A p, n : StartedOn(p, n) => StartedOn(p, n)'
    BY <2>1, StartedKept
  <2>. QED
    BY <2>1, <2>2 DEF ResultsFollowRuns
<1>. QED
  BY <1>2, <1>4, <1>5, <1>6, <1>7

(* Every step keeps the projects of results. *)
LEMMA ResultsStep ==
  TypeOK /\ TypeOK' /\ FramesInOrder /\ EditsAreFollowed /\ ResultsFollowRuns /\ [Next]_vars
    => ResultsFollowRuns'
<1>. SUFFICES ASSUME TypeOK, TypeOK', FramesInOrder, EditsAreFollowed, ResultsFollowRuns, [Next]_vars
              PROVE  ResultsFollowRuns'
  OBVIOUS
<1>1. ASSUME UNCHANGED <<run, pending, models, runs, results>> PROVE ResultsFollowRuns'
  BY <1>1, ResultsKept
<1>2. ASSUME NEW c \in Clients, Connect(c) \/ Disconnect(c) \/ ClientSends(c) PROVE ResultsFollowRuns'
  <2>1. UNCHANGED <<run, pending, models, runs, results>>
    BY <1>2 DEF Connect, Disconnect, ClientSends, EditCanvas, TimerFires, OpenVariant, DeleteVariant,
                AskToRun, Answer, serverVars, history
  <2>. QED
    BY <1>1, <2>1
<1>3. ASSUME EndRun PROVE ResultsFollowRuns'
  <2>1. UNCHANGED <<models, runs, results>> /\ run # None /\ run' = None
    BY <1>3 DEF EndRun, history
  <2>2. \A p, n : StartedOn(p, n) => StartedOn(p, n)'
    BY <2>1, StartedKept
  <2>3. ASSUME NEW p \in pending' PROVE StartedOn(p.project, p.n)
    <3>1. p \in pending \/ p = [project |-> run.project, n |-> run.n]
      BY <1>3, <2>3 DEF EndRun, ProposedFor
    <3>. QED
      BY <2>1, <3>1 DEF ResultsFollowRuns
  <2>. QED
    BY <2>1, <2>2, <2>3 DEF ResultsFollowRuns
<1>4. ASSUME Restart PROVE ResultsFollowRuns'
  <2>1. UNCHANGED <<models, runs, results>> /\ run' = None /\ pending' = {}
    BY <1>4 DEF Restart
  <2>2. \A p, n : StartedOn(p, n) => StartedOn(p, n)'
    BY <2>1, StartedKept
  <2>. QED
    BY <2>1, <2>2 DEF ResultsFollowRuns
<1>5. ASSUME UNCHANGED vars PROVE ResultsFollowRuns'
  BY <1>1, <1>5 DEF vars, serverVars, history
<1>. QED
  BY <1>2, <1>3, <1>4, <1>5, ResultsHandled DEF Next, ClientSends

-----------------------------------------------------------------------------
(* What the invariant promises.                                              *)
LEMMA Promises ==
  Core => QuietIsSaved /\ ReplacedIsSaved /\ SavedUnderItsOwn /\ ResultOfOwnCanvas
<1>. SUFFICES ASSUME TypeOK, FramesInOrder, EditsAreFollowed, UnsavedHasCause, ResultsFollowRuns
              PROVE  QuietIsSaved /\ ReplacedIsSaved /\ SavedUnderItsOwn /\ ResultOfOwnCanvas
  BY DEF Core
<1>1. ASSUME NEW d \in Clients, Saving(d)
      PROVE  /\ timer[d] \/ SavesIn(queue[d])
             /\ queue[d] # <<>> => Head(queue[d]).op # "load"
  <2>1. /\ DOMAIN queue[d] = 1..Len(queue[d]) /\ queue[d] \in Seq(Frames) /\ timer[d] \in BOOLEAN
        /\ SavesFrom(queue[d], timer[d], 1)
    BY <1>1, LenProperties DEF TypeOK, Saving
  <2>2. timer[d] \/ SavesIn(queue[d])
    BY <2>1 DEF SavesFrom, SavesIn
  <2>. QED
    BY <2>1, <2>2, SavesHead
<1>2. ~SavesIn(<<>>)
  BY DEF SavesIn
<1>3. QuietIsSaved
  <2>. SUFFICES ASSUME \A c \in Clients : up[c] /\ queue[c] = <<>> /\ ~timer[c],
                       astray = {}, ~unsaved, NEW c \in Clients
                PROVE  store[active[c]] = canvas
    BY DEF QuietIsSaved
  <2>1. About(<<>>, active[c], 1, home)
    BY OrderCases DEF FramesInOrder
  <2>2. active[c] = home
    BY <2>1, EmptyOrder
  <2>3. ~Untouched /\ ~\E d \in Clients : Saving(d)
    BY <1>1, <1>2 DEF Untouched
  <2>. QED
    BY <2>2, <2>3, CauseOf
<1>4. ReplacedIsSaved
  <2>. SUFFICES ASSUME NEW c \in Clients, queue[c] # <<>>, Head(queue[c]).op = "load",
                       astray = {}, ~unsaved, canvas # 0, store[home] # canvas
                PROVE  \E d \in Clients \ {c} : timer[d] \/ SavesIn(queue[d])
    BY DEF ReplacedIsSaved
  <2>1. PICK d \in Clients : Saving(d)
    BY CauseOf DEF Untouched
  <2>. QED
    BY <1>1, <2>1
<1>5. SavedUnderItsOwn
  <2>. SUFFICES ASSUME NEW c \in Clients, c \notin astray, queue[c] # <<>>, Head(queue[c]).op = "save"
                PROVE  Head(queue[c]).project = home
    BY DEF SavedUnderItsOwn
  <2>1. queue[c] \in Seq(Frames) /\ About(queue[c], active[c], 1, home)
    BY OrderCases DEF TypeOK, FramesInOrder
  <2>. QED
    BY <2>1, AboutHead
<1>6. ResultOfOwnCanvas
  BY DEF ResultOfOwnCanvas, ResultsFollowRuns, StartedOn
<1>. QED
  BY <1>3, <1>4, <1>5, <1>6

(* Every step keeps the core of the invariant. *)
LEMMA InductiveStep == Core /\ [Next]_vars => Core'
BY TypeStep, OrderStep, EditsStep, CauseStep, ResultsStep DEF Core

(* In every reachable state, for any number of clients that edit, switch,    *)
(* delete, run and lose their connections, and through every restart: what   *)
(* the queues hold is about the projects it should be, an edit is followed   *)
(* by its save, and the warehouse holds every canvas that is quiet or about  *)
(* to be replaced (pipeline.ts switchGraphProject, scheduleGraphSave).       *)
THEOREM Invariance == Spec => []IInv
<1>1. Core => IInv
  BY Promises DEF Core, IInv, Inv
<1>. QED
  BY InitInvariant, InductiveStep, <1>1, PTL DEF Spec

(* A save names the project on the canvas, unless its client is astray.      *)
THEOREM SavedUnderItsOwnHolds == Spec => []SavedUnderItsOwn
<1>1. Core => SavedUnderItsOwn
  BY Promises
<1>. QED
  BY InitInvariant, InductiveStep, <1>1, PTL DEF Spec

(* An accepted result comes from a run of the variant's own canvas, unless   *)
(* the client that asked for the run was astray.                             *)
THEOREM ResultOfOwnCanvasHolds == Spec => []ResultOfOwnCanvas
<1>1. Core => ResultOfOwnCanvas
  BY Promises
<1>. QED
  BY InitInvariant, InductiveStep, <1>1, PTL DEF Spec
================================================================================
