----------------------------- MODULE LibraryProofs -----------------------------
(***************************************************************************)
(* Proofs about Library, for any finite set of models, any shapes and any  *)
(* number of computed weights: however long the chains of links are.       *)
(***************************************************************************)
EXTENDS Library, FiniteSetTheorems, TLAPS

-----------------------------------------------------------------------------
(* Following links.                                                          *)

(* What the lemmas ask of a table of files: a link has no bytes of its own.  *)
Table(f) == f \in [Ids -> Files] /\ \A k \in Ids : f[k].link # None => f[k].version = 0

(* A file reaches itself and whatever what it reaches is linked to.          *)
LEMMA ReachedIs ==
  ASSUME NEW f \in [Ids -> Files], NEW i \in Ids
  PROVE  /\ i \in Reached(f, i) /\ Reached(f, i) \subseteq Ids
         /\ \A k \in Reached(f, i) : f[k].link # None => f[k].link \in Reached(f, i)
<1>1. \A k \in Ids : f[k].link \in Ids \cup {None}
  BY DEF Files
<1>2. Reached(f, i) \subseteq Ids
  BY DEF Reached
<1>3. i \in Reached(f, i)
  BY DEF Reached, Closed
<1>4. ASSUME NEW k \in Reached(f, i), f[k].link # None PROVE f[k].link \in Reached(f, i)
  <2>1. f[k].link \in Ids
    BY <1>1, <1>2, <1>4
  <2>2. \A S \in Closed(f, i) : k \in S
    BY <1>4 DEF Reached
  <2>3. \A S \in Closed(f, i) : f[k].link \in S
    BY <1>4, <2>2 DEF Closed
  <2>. QED
    BY <2>1, <2>3 DEF Reached
<1>. QED
  BY <1>2, <1>3, <1>4

(* It reaches no more than any set that is closed under links.               *)
LEMMA ReachedLeast ==
  ASSUME NEW f, NEW i \in Ids, NEW S \in SUBSET Ids, i \in S,
         \A k \in S : f[k].link # None => f[k].link \in S
  PROVE  Reached(f, i) \subseteq S
<1>1. S \in Closed(f, i)
  BY DEF Closed
<1>. QED
  BY <1>1 DEF Reached

(* A file that is no link reaches itself only; a link what its target does.  *)
LEMMA ReachedOwn ==
  ASSUME NEW f \in [Ids -> Files], NEW i \in Ids, f[i].link = None
  PROVE  Reached(f, i) = {i}
<1>1. PICK S \in SUBSET Ids : S = {i}
  OBVIOUS
<1>2. Reached(f, i) \subseteq S
  BY <1>1, ReachedLeast
<1>. QED
  BY <1>1, <1>2, ReachedIs

(* A link reaches itself and what its target does. *)
LEMMA ReachedOver ==
  ASSUME NEW f \in [Ids -> Files], NEW i \in Ids, f[i].link # None
  PROVE  f[i].link \in Ids /\ Reached(f, i) = {i} \cup Reached(f, f[i].link)
<1>1. f[i].link \in Ids
  BY DEF Files
<1>. DEFINE l == f[i].link
<1>2. Reached(f, i) \subseteq {i} \cup Reached(f, l)
  <2>1. /\ l \in Reached(f, l) /\ Reached(f, l) \subseteq Ids
        /\ \A k \in Reached(f, l) : f[k].link # None => f[k].link \in Reached(f, l)
    BY <1>1, ReachedIs
  <2>. DEFINE S == {i} \cup Reached(f, l)
  <2>2. S \in SUBSET Ids /\ i \in S /\ \A k \in S : f[k].link # None => f[k].link \in S
    BY <2>1
  <2>. HIDE DEF S
  <2>3. Reached(f, i) \subseteq S
    BY <2>2, ReachedLeast
  <2>. QED
    BY <2>3 DEF S
<1>3. i \in Reached(f, i) /\ Reached(f, l) \subseteq Reached(f, i)
  <2>1. /\ i \in Reached(f, i) /\ Reached(f, i) \subseteq Ids
        /\ \A k \in Reached(f, i) : f[k].link # None => f[k].link \in Reached(f, i)
    BY ReachedIs
  <2>2. Reached(f, l) \subseteq Reached(f, i)
    BY <1>1, <2>1, ReachedLeast
  <2>. QED
    BY <2>1, <2>2
<1>. QED
  BY <1>1, <1>2, <1>3

(* A chain of links has one end at most.                                     *)
LEMMA OneEnd ==
  ASSUME NEW f \in [Ids -> Files], NEW i \in Ids, NEW j \in Ends(f, i), NEW k \in Ends(f, i)
  PROVE  j = k
<1>. DEFINE S == { h \in Ids : j \in Reached(f, h) }
<1>1. j \in Reached(f, i) /\ f[j].link = None /\ k \in Reached(f, i) /\ f[k].link = None /\ k \in Ids
  BY ReachedIs DEF Ends
<1>2. ASSUME NEW h \in S, f[h].link # None PROVE f[h].link \in S
  <2>1. f[h].link \in Ids /\ Reached(f, h) = {h} \cup Reached(f, f[h].link)
    BY <1>2, ReachedOver
  <2>. QED
    BY <1>1, <1>2, <2>1
<1>3. k \in S
  BY <1>1, <1>2, ReachedLeast
<1>. QED
  BY <1>1, <1>3, ReachedOwn

(* Following links leads to their end, if they have one. *)
LEMMA FollowIs ==
  ASSUME NEW f \in [Ids -> Files], NEW i \in Ids
  PROVE  /\ Follow(f, i) \in Ids /\ Read(f, i) \in Files
         /\ \A j \in Ends(f, i) : Follow(f, i) = j
         /\ Ends(f, i) = {} => Follow(f, i) = i
<1>1. Ends(f, i) \subseteq Ids
  BY ReachedIs DEF Ends
<1>2. \A j \in Ends(f, i) : Follow(f, i) = j
  BY OneEnd DEF Follow
<1>3. Ends(f, i) = {} => Follow(f, i) = i
  BY DEF Follow
<1>. QED
  BY <1>1, <1>2, <1>3 DEF Read

(* Reading a file that is no link.                                           *)
LEMMA ReadOwn ==
  ASSUME NEW f \in [Ids -> Files], NEW i \in Ids, f[i].link = None
  PROVE  Read(f, i) = f[i]
<1>1. i \in Ends(f, i)
  BY ReachedOwn DEF Ends
<1>. QED
  BY <1>1, FollowIs DEF Read

(* What is there to be read lies at the end of the links.                    *)
LEMMA ExistsAtEnd ==
  ASSUME NEW f, Table(f), NEW i \in Ids, Exists(f, i)
  PROVE  Read(f, i).link = None /\ \E j \in Ends(f, i) : Read(f, i) = f[j]
<1>1. f \in [Ids -> Files]
  BY DEF Table
<1>2. CASE Ends(f, i) = {}
  <2>1. Read(f, i) = f[i] /\ i \in Reached(f, i)
    BY <1>1, <1>2, FollowIs, ReachedIs DEF Read
  <2>2. f[i].link # None
    BY <1>2, <2>1 DEF Ends
  <2>. QED
    BY <2>1, <2>2 DEF Table, Exists
<1>3. ASSUME NEW j \in Ends(f, i)
      PROVE  Read(f, i).link = None /\ Read(f, i) = f[j]
  BY <1>1, <1>3, FollowIs DEF Read, Ends
<1>. QED
  BY <1>2, <1>3

(* Reading a link is reading its target.                                     *)
LEMMA ReadOver ==
  ASSUME NEW f, Table(f), NEW i \in Ids, f[i].link # None
  PROVE  /\ f[i].link \in Ids /\ (Exists(f, i) <=> Exists(f, f[i].link))
         /\ Exists(f, i) => Read(f, i) = Read(f, f[i].link)
<1>. DEFINE l == f[i].link
<1>1. f \in [Ids -> Files] /\ l \in Ids
  BY DEF Table, Files
<1>2. Ends(f, i) = Ends(f, l)
  <2>1. Reached(f, i) = {i} \cup Reached(f, l)
    BY <1>1, ReachedOver
  <2>. QED
    BY <2>1 DEF Ends
<1>3. ASSUME NEW j \in Ends(f, i) PROVE Read(f, i) = Read(f, l)
  BY <1>1, <1>2, <1>3, FollowIs DEF Read
<1>4. CASE Ends(f, i) = {}
  <2>1. ~Exists(f, i)
    BY <1>4, ExistsAtEnd
  <2>2. ~Exists(f, l)
    BY <1>1, <1>2, <1>4, ExistsAtEnd
  <2>. QED
    BY <1>1, <2>1, <2>2
<1>. QED
  BY <1>1, <1>3, <1>4 DEF Exists

(* Induction along the links: what holds of the bytes, and of a link when it *)
(* holds of its target, holds of every file that can be read.                *)
LEMMA AlongLinks ==
  ASSUME NEW f, Table(f), NEW P \in SUBSET Ids,
         \A k \in Ids : Exists(f, k) /\ f[k].link = None => k \in P,
         \A k \in Ids : Exists(f, k) /\ f[k].link # None /\ f[k].link \in P => k \in P
  PROVE  \A i \in Ids : Exists(f, i) => i \in P
<1>. SUFFICES ASSUME NEW i \in Ids, Exists(f, i), i \notin P PROVE FALSE
  OBVIOUS
<1>. DEFINE S == { k \in Ids : Exists(f, k) /\ k \notin P }
<1>1. \A k \in S : f[k].link # None => f[k].link \in S
  BY ReadOver
<1>2. Reached(f, i) \subseteq S
  BY <1>1, ReachedLeast
<1>3. PICK j \in Ends(f, i) : TRUE
  BY ExistsAtEnd
<1>4. j \in S /\ f[j].link = None
  BY <1>2, <1>3 DEF Ends
<1>. QED
  BY <1>4

-----------------------------------------------------------------------------
(* What the operations do to the files that links lead to.                   *)

(* Files and jobs are what their names say.                                  *)
LEMMA FileIs ==
  /\ NoFile \in Files /\ NoFile.link = None /\ NoFile.version = 0
  /\ \A i \in Ids : Link(i) \in Files /\ Link(i).link = i /\ i # None /\ Link(i).version = 0
  /\ \A s \in Shapes \cup {None}, v \in 0..MaxVersion :
       /\ Bytes(s, v) \in Files /\ Bytes(s, v).link = None /\ Bytes(s, v).version = v
       /\ v # 0 => Bytes(s, v) # NoFile
BY LibraryAssumption DEF NoFile, Link, Bytes, Files

(* Bytes in the place of a file, or of a link, can be read by whatever could *)
(* read it.                                                                  *)
LEMMA BytesKeep ==
  ASSUME NEW f, Table(f), NEW k \in Ids, NEW b \in Files, b.link = None, b.version # 0,
         NEW g, g = [f EXCEPT ![k] = b]
  PROVE  Table(g) /\ \A i \in Ids : Exists(f, i) => Exists(g, i)
<1>1. f \in [Ids -> Files] /\ g \in [Ids -> Files]
  BY DEF Table
<1>2. Table(g)
  BY <1>1 DEF Table
<1>. DEFINE P == { i \in Ids : Exists(g, i) }
<1>3. Exists(g, k)
  <2>1. g[k] = b
    BY <1>1
  <2>. QED
    BY <1>1, <2>1, ReadOwn DEF Exists
<1>4. ASSUME NEW i \in Ids, Exists(f, i), f[i].link = None PROVE Exists(g, i)
  <2>1. CASE i = k
    BY <1>3, <2>1
  <2>2. CASE i # k
    <3>1. g[i] = f[i] /\ Read(f, i) = f[i]
      BY <1>1, <1>4, <2>2, ReadOwn
    <3>2. Read(g, i) = g[i]
      BY <1>1, <1>4, <3>1, ReadOwn
    <3>. QED
      BY <1>4, <3>1, <3>2 DEF Exists
  <2>. QED
    BY <2>1, <2>2
<1>5. ASSUME NEW i \in Ids, Exists(f, i), f[i].link # None, f[i].link \in P PROVE Exists(g, i)
  <2>1. CASE i = k
    BY <1>3, <2>1
  <2>2. CASE i # k
    <3>1. g[i] = f[i]
      BY <1>1, <2>2
    <3>. QED
      BY <1>2, <1>5, <3>1, ReadOver
  <2>. QED
    BY <2>1, <2>2
<1>6. \A i \in Ids : Exists(f, i) => i \in P
  <2>. HIDE DEF P
  <2>1. P \in SUBSET Ids
    BY DEF P
  <2>2. \A i \in Ids : Exists(f, i) /\ f[i].link = None => i \in P
    BY <1>4 DEF P
  <2>3. \A i \in Ids : Exists(f, i) /\ f[i].link # None /\ f[i].link \in P => i \in P
    BY <1>5 DEF P
  <2>. QED
    BY <2>1, <2>2, <2>3, AlongLinks
<1>. QED
  BY <1>2, <1>6

(* A file where none was and to which nothing is linked.                     *)
LEMMA NewKeeps ==
  ASSUME NEW f, Table(f), NEW k \in Ids, f[k] = NoFile, \A i \in Ids : f[i].link # k,
         NEW b \in Files, b.link # None => b.version = 0, NEW g, g = [f EXCEPT ![k] = b]
  PROVE  Table(g) /\ \A i \in Ids : Exists(f, i) => i # k /\ Exists(g, i)
<1>1. f \in [Ids -> Files] /\ g \in [Ids -> Files]
  BY DEF Table
<1>2. Table(g)
  <2>1. \A i \in Ids : g[i] = IF i = k THEN b ELSE f[i]
    BY <1>1
  <2>. QED
    BY <1>1, <2>1 DEF Table
<1>3. ~Exists(f, k)
  <2>1. f[k].link = None /\ f[k].version = 0
    BY FileIs
  <2>. QED
    BY <1>1, <2>1, ReadOwn DEF Exists
<1>. DEFINE P == { i \in Ids : Exists(g, i) }
<1>4. ASSUME NEW i \in Ids, Exists(f, i), f[i].link = None PROVE Exists(g, i)
  <2>1. g[i] = f[i] /\ Read(f, i) = f[i]
    BY <1>1, <1>3, <1>4, ReadOwn
  <2>2. Read(g, i) = g[i]
    BY <1>1, <1>4, <2>1, ReadOwn
  <2>. QED
    BY <1>4, <2>1, <2>2 DEF Exists
<1>5. ASSUME NEW i \in Ids, Exists(f, i), f[i].link # None, f[i].link \in P PROVE Exists(g, i)
  <2>1. g[i] = f[i]
    BY <1>1, <1>3, <1>5
  <2>. QED
    BY <1>2, <1>5, <2>1, ReadOver
<1>6. \A i \in Ids : Exists(f, i) => i \in P
  <2>. HIDE DEF P
  <2>1. P \in SUBSET Ids
    BY DEF P
  <2>2. \A i \in Ids : Exists(f, i) /\ f[i].link = None => i \in P
    BY <1>4 DEF P
  <2>3. \A i \in Ids : Exists(f, i) /\ f[i].link # None /\ f[i].link \in P => i \in P
    BY <1>5 DEF P
  <2>. QED
    BY <2>1, <2>2, <2>3, AlongLinks
<1>. QED
  BY <1>2, <1>3, <1>6

(* The files when id goes and the links in K have become copies of it.       *)
Copied(f, id, K, g) ==
  /\ g \in [Ids -> Files]
  /\ \A i \in Ids : g[i] = IF i = id THEN NoFile ELSE IF i \in K THEN Read(f, id) ELSE f[i]

(* A file goes, and the links that led to it become copies of what it gave:  *)
(* all others read what they read before.                                    *)
LEMMA CopiesKeep ==
  ASSUME NEW f, Table(f), NEW id \in Ids, NEW K \in SUBSET Ids,
         \A k \in K : f[k].link = id /\ Exists(f, id),
         \A k \in Ids : f[k].link = id /\ Exists(f, k) => k \in K,
         NEW g, Copied(f, id, K, g)
  PROVE  Table(g) /\ \A i \in Ids \ {id} : Exists(f, i) => Exists(g, i) /\ Read(g, i) = Read(f, i)
<1>1. /\ f \in [Ids -> Files] /\ Read(f, id) \in Files /\ g \in [Ids -> Files]
      /\ \A i \in Ids : g[i] = IF i = id THEN NoFile ELSE IF i \in K THEN Read(f, id) ELSE f[i]
  BY FollowIs DEF Table, Copied
<1>2. K # {} => Read(f, id).link = None /\ Exists(f, id)
  BY ExistsAtEnd
<1>3. Table(g)
  BY <1>1, <1>2, FileIs DEF Table
<1>. DEFINE P == { i \in Ids : i = id \/ Read(g, i) = Read(f, i) }
<1>4. ASSUME NEW i \in Ids, i # id, Exists(f, i), f[i].link = None PROVE Read(g, i) = Read(f, i)
  <2>1. i \notin K /\ g[i] = f[i]
    BY <1>1, <1>4, LibraryAssumption
  <2>. QED
    BY <1>1, <1>4, <2>1, ReadOwn
<1>5. ASSUME NEW i \in Ids, i # id, Exists(f, i), f[i].link # None, f[i].link \in P
      PROVE  Read(g, i) = Read(f, i)
  <2>0. f[i].link \in Ids /\ Read(f, i) = Read(f, f[i].link) /\ Exists(f, f[i].link)
    BY <1>5, ReadOver
  <2>1. CASE i \in K
    <3>1. g[i] = Read(f, id) /\ Read(f, id).link = None /\ f[i].link = id
      BY <1>1, <1>2, <1>5, <2>1
    <3>2. Read(g, i) = g[i]
      BY <1>1, <3>1, ReadOwn
    <3>. QED
      BY <2>0, <3>1, <3>2
  <2>2. CASE i \notin K
    <3>1. g[i] = f[i] /\ f[i].link # id
      BY <1>1, <1>5, <2>2
    <3>2. Read(g, f[i].link) = Read(f, f[i].link)
      BY <1>5, <3>1
    <3>3. Exists(g, f[i].link)
      BY <2>0, <3>2 DEF Exists
    <3>4. Read(g, i) = Read(g, f[i].link)
      BY <1>3, <1>5, <3>1, <3>3, ReadOver
    <3>. QED
      BY <2>0, <3>2, <3>4
  <2>. QED
    BY <2>1, <2>2
<1>6. \A i \in Ids : Exists(f, i) => i \in P
  <2>. HIDE DEF P
  <2>1. P \in SUBSET Ids
    BY DEF P
  <2>2. \A i \in Ids : Exists(f, i) /\ f[i].link = None => i \in P
    BY <1>4 DEF P
  <2>3. \A i \in Ids : Exists(f, i) /\ f[i].link # None /\ f[i].link \in P => i \in P
    BY <1>5 DEF P
  <2>. QED
    BY <2>1, <2>2, <2>3, AlongLinks
<1>. QED
  BY <1>3, <1>6 DEF Exists

-----------------------------------------------------------------------------
(* The reserve of versions.                                                  *)

(* There are finitely many variants. *)
LEMMA ClonesAreFinite ==
  ASSUME NEW S \in SUBSET Clones
  PROVE  IsFiniteSet(S) /\ Cardinality(S) \in Nat
<1>1. S \subseteq Ids /\ IsFiniteSet(Ids)
  BY LibraryAssumption DEF Ids
<1>. QED
  BY <1>1, FS_Subset, FS_CardinalityType

Waits == {"data", "weights", "moments", "loop"}

(* Where no training begins and no version is computed, the reserve is kept. *)
LEMMA ReserveKept ==
  ASSUME Reserve, TypeOK, UNCHANGED version, \A c \in Clones : job'[c].pc \in Waits => job[c].pc \in Waits
  PROVE  Reserve'
<1>1. PICK Q : Q = Pending'
  OBVIOUS
<1>2. Q \subseteq Pending /\ Pending \subseteq Clones
  BY <1>1 DEF Pending, Waits
<1>3. Cardinality(Q) \in Nat /\ Cardinality(Pending) \in Nat /\ Cardinality(Q) <= Cardinality(Pending)
  BY <1>2, ClonesAreFinite, FS_Subset
<1>4. version + Cardinality(Q) <= MaxVersion
  BY <1>3, LibraryAssumption DEF Reserve, TypeOK
<1>. QED
  BY <1>1, <1>4 DEF Reserve

(* A training that ends its loop uses its own.                               *)
LEMMA ReserveUsed ==
  ASSUME Reserve, TypeOK, NewVersion, NEW c \in Clones, NEW r \in Jobs, job[c].pc \in Waits, r.pc \notin Waits,
         job' = [job EXCEPT ![c] = r]
  PROVE  Reserve' /\ version' \in 0..MaxVersion /\ version' # 0
<1>1. PICK Q : Q = Pending'
  OBVIOUS
<1>2. Q = Pending \ {c} /\ c \in Pending /\ Pending \subseteq Clones
  BY <1>1 DEF Pending, Waits, TypeOK
<1>3. Cardinality(Q) \in Nat /\ Cardinality(Pending) \in Nat /\ Cardinality(Q) = Cardinality(Pending) - 1
  BY <1>2, ClonesAreFinite, FS_RemoveElement
<1>4. version' + Cardinality(Q) <= MaxVersion /\ version' \in 0..MaxVersion /\ version' # 0
  BY <1>3, LibraryAssumption DEF Reserve, TypeOK, NewVersion
<1>. QED
  BY <1>1, <1>4 DEF Reserve

(* A spare version may be used, or kept for a training that begins.          *)
LEMMA SpareUsed ==
  ASSUME TypeOK, Spare, scene.versions \in 0..MaxVersion, NewVersion, UNCHANGED job
  PROVE  Reserve' /\ version' \in 0..MaxVersion /\ version' # 0
<1>1. PICK Q : Q = Pending'
  OBVIOUS
<1>. DEFINE R == { c \in Clones : Training(c) }
<1>2. Q \subseteq R /\ R \subseteq Clones
  BY <1>1 DEF Pending, Training
<1>3. Cardinality(Q) \in Nat /\ Cardinality(R) \in Nat /\ Cardinality(Q) <= Cardinality(R)
  BY <1>2, ClonesAreFinite, FS_Subset
<1>4. version' + Cardinality(Q) <= MaxVersion /\ version' \in 0..MaxVersion /\ version' # 0
  BY <1>3, LibraryAssumption DEF Spare, TypeOK, NewVersion
<1>. QED
  BY <1>1, <1>4 DEF Reserve

(* A spare version is the reserve of a training that begins. *)
LEMMA SpareKept ==
  ASSUME TypeOK, Spare, scene.versions \in 0..MaxVersion, UNCHANGED version, NEW c \in Clones, ~Training(c), NEW r \in Jobs,
         job' = [job EXCEPT ![c] = r]
  PROVE  Reserve'
<1>1. PICK Q : Q = Pending'
  OBVIOUS
<1>. DEFINE R == { d \in Clones : Training(d) }
<1>2. Q \subseteq R \cup {c} /\ R \subseteq Clones /\ c \notin R /\ Q \subseteq Clones /\ R \cup {c} \subseteq Clones
  BY <1>1 DEF Pending, Training, TypeOK
<1>. HIDE DEF R
<1>3. Cardinality(Q) \in Nat /\ Cardinality(R) \in Nat /\ Cardinality(R \cup {c}) = Cardinality(R) + 1
  BY <1>2, ClonesAreFinite, FS_AddElement
<1>4. Cardinality(Q) <= Cardinality(R \cup {c})
  BY <1>2, ClonesAreFinite, FS_Subset
<1>5. version + Cardinality(R) < scene.versions
  BY DEF Spare, R
<1>6. version + Cardinality(Q) <= MaxVersion
  BY <1>3, <1>4, <1>5, LibraryAssumption DEF TypeOK
<1>. QED
  BY <1>1, <1>6 DEF Reserve

-----------------------------------------------------------------------------
(* A training goes on, or is given up.                                       *)

(* The files are a table of files. *)
LEMMA TableHolds == TypeOK /\ LinksOwned => Table(file)
BY DEF TypeOK, LinksOwned, Table, IsLink, Ids

(* Trainings, at the next state, of each training by itself.                 *)
LEMMA NextTrainings ==
  ASSUME \A d \in Clones : \A j : j = job'[d] /\ j.pc # "off" => j.shape \in Shapes /\ Holds(d, j)'
  PROVE  Trainings'
BY DEF Trainings, Training, Holds

(* A step that changes one training only, and no file. *)
LEMMA JobMoves ==
  ASSUME Stored, NEW c \in Clones, config[c] # None, c \notin fresh,
         NEW r \in Jobs, r.pc # "off" => r.shape \in Shapes /\ Holds(c, r) /\ (~renamed => r.parent = parent[c]),
         job' = [job EXCEPT ![c] = r], stopping' \subseteq Clones, version' \in 0..MaxVersion, Reserve',
         UNCHANGED <<meta, files, fresh, renamed>>,
         torn' = torn \/ (torn' = torn \cup {c} /\ r.pc = "off"),
         At(c, "saveAdam") => c \in torn'
  PROVE  Stored'
<1>1. TypeOK /\ UNCHANGED <<config, parent, tokRef, file, adam, tokens>>
  BY DEF Stored, Inv, meta, files
<1>2. \A d \in Clones : job'[d] = IF d = c THEN r ELSE job[d]
  BY <1>1 DEF TypeOK
<1>3. TypeOK'
  BY <1>1 DEF TypeOK
<1>4. TrainedVariantExists'
  BY <1>1, <1>2 DEF Stored, Inv, TrainedVariantExists, Training
<1>5. LinksResolve'
  <2>1. PICK g : g = file'
    OBVIOUS
  <2>2. g = file /\ renamed' = renamed /\ LinksResolve
    BY <1>1, <2>1 DEF Stored, Inv
  <2>3. ~renamed => \A d \in Clones : IsLink(g, d) => Exists(g, d)
    BY <2>2 DEF LinksResolve
  <2>. QED
    BY <2>1, <2>2, <2>3 DEF LinksResolve
<1>6. PairedOptimum'
  BY <1>1, <1>2 DEF Stored, Inv, PairedOptimum, At
<1>7. NeverMade'
  BY <1>1 DEF Stored, NeverMade
<1>8. LinksOwned'
  BY <1>1, <1>2 DEF Stored, LinksOwned, IsLink, Training
<1>9. Trainings'
  <2>1. ASSUME NEW d \in Clones, NEW j, j = job'[d], j.pc # "off"
        PROVE  j.shape \in Shapes /\ Holds(d, j)'
    <3>1. CASE d = c
      <4>1. j = r /\ r.shape \in Shapes /\ Holds(d, j) /\ torn' = torn
        BY <1>2, <2>1, <3>1
      <4>. QED
        BY <1>1, <4>1 DEF Holds
    <3>2. CASE d # c
      <4>1. j = job[d] /\ j.shape \in Shapes /\ Holds(d, j)
        BY <1>2, <2>1, <3>2 DEF Stored, Trainings, Training
      <4>2. d \notin torn' => d \notin torn
        OBVIOUS
      <4>. QED
        BY <1>1, <4>1, <4>2 DEF Holds
    <3>. QED
      BY <3>1, <3>2
  <2>. QED
    BY <2>1, NextTrainings
<1>. QED
  BY <1>3, <1>4, <1>5, <1>6, <1>7, <1>8, <1>9 DEF Stored, Inv

(* What a training in progress relies on.                                    *)
LEMMA JobIs ==
  ASSUME Stored, NEW c \in Clones, Training(c)
  PROVE  /\ config[c] # None /\ c \notin fresh /\ job[c] \in Jobs /\ job[c].shape \in Shapes
         /\ Holds(c, job[c]) /\ (~renamed => job[c].parent = parent[c])
BY DEF Stored, Inv, TypeOK, TrainedVariantExists, Trainings, LinksOwned

(* The end of a training that writes nothing more.                           *)
LEMMA JobEnds ==
  ASSUME Stored, NEW c \in Clones, Training(c), Finish(c), UNCHANGED <<meta, files, fresh, version, renamed>>,
         torn' = torn \/ torn' = torn \cup {c}, At(c, "saveAdam") => c \in torn'
  PROVE  Stored'
<1>1. config[c] # None /\ c \notin fresh /\ TypeOK /\ Reserve
  BY JobIs DEF Stored, Inv
<1>2. NoJob \in Jobs /\ NoJob.pc = "off"
  BY FileIs, LibraryAssumption DEF NoJob, Jobs
<1>3. job' = [job EXCEPT ![c] = NoJob] /\ stopping' \subseteq Clones
  BY <1>1 DEF Finish, TypeOK
<1>4. \A d \in Clones : job'[d].pc \in Waits => job[d].pc \in Waits
  BY <1>1, <1>2, <1>3 DEF TypeOK, Waits
<1>5. Reserve' /\ version' \in 0..MaxVersion
  BY <1>1, <1>4, ReserveKept DEF TypeOK
<1>. QED
  BY <1>1, <1>2, <1>3, <1>5, JobMoves

(* A training begins. *)
LEMMA StartTrainKeeps ==
  ASSUME Stored, scene.versions \in 0..MaxVersion, NEW c \in Clones, StartTrain(c)
  PROVE  Stored'
<1>0. TypeOK /\ NeverMade
  BY DEF Stored, Inv
<1>1. /\ TypeOK /\ config[c] # None /\ config[c] \in Shapes /\ ~Training(c) /\ Spare /\ c \notin fresh
      /\ UNCHANGED <<meta, files, fresh, version, torn, renamed>>
  <2>1. config[c] # None /\ ~Training(c) /\ Spare /\ UNCHANGED <<meta, files, fresh, version, torn, renamed>>
    BY DEF StartTrain, past
  <2>2. config[c] \in Shapes \cup {None}
    BY <1>0 DEF TypeOK, Ids
  <2>. QED
    BY <1>0, <2>1, <2>2 DEF NeverMade
<1>2. PICK r : r = [NoJob EXCEPT !.pc = "data", !.shape = config[c], !.parent = parent[c], !.tok = tokRef[c]]
  OBVIOUS
<1>3. r \in Jobs /\ r.pc = "data" /\ r.shape = config[c] /\ r.parent = parent[c] /\ r.moments = 0
  <2>1. parent[c] \in Ids \cup {None} /\ tokRef[c] \in Names \cup {SharedTok, None} /\ 0 \in 0..MaxVersion
    BY <1>1, LibraryAssumption DEF TypeOK
  <2>2. /\ r = [pc |-> "data", shape |-> config[c], parent |-> parent[c], tok |-> tokRef[c],
                warm |-> 0, moments |-> 0, out |-> NoFile]
    BY <1>2 DEF NoJob
  <2>. QED
    BY <1>1, <2>1, <2>2, FileIs DEF Jobs
<1>4. job' = [job EXCEPT ![c] = r] /\ stopping' \subseteq Clones
  BY <1>1, <1>2 DEF StartTrain, TypeOK
<1>5. Holds(c, r)
  BY <1>3 DEF Holds
<1>6. Reserve' /\ version' \in 0..MaxVersion
  BY <1>1, <1>3, <1>4, SpareKept DEF TypeOK
<1>7. ~At(c, "saveAdam")
  BY <1>1 DEF At, Training
<1>. QED
  BY <1>1, <1>3, <1>4, <1>5, <1>6, <1>7, JobMoves

(* A training that takes its next step without computing a version.          *)
LEMMA JobGoes ==
  ASSUME Stored, NEW c \in Clones, job[c].pc \in Waits, NEW r \in Jobs, Go(c, r), r.pc # "off",
         r.shape = job[c].shape, r.parent = job[c].parent, Holds(c, r),
         UNCHANGED <<meta, files, fresh, version, past>>
  PROVE  Stored'
<1>1. Training(c) /\ ~At(c, "saveAdam")
  BY DEF Training, At, Waits
<1>2. /\ config[c] # None /\ c \notin fresh /\ TypeOK /\ Reserve /\ r.shape \in Shapes
      /\ (~renamed => r.parent = parent[c])
  BY <1>1, JobIs DEF Stored, Inv
<1>3. job' = [job EXCEPT ![c] = r] /\ stopping' \subseteq Clones /\ UNCHANGED <<torn, renamed>>
  BY <1>2 DEF Go, TypeOK, past
<1>4. \A d \in Clones : job'[d].pc \in Waits => job[d].pc \in Waits
  BY <1>2, <1>3 DEF TypeOK
<1>5. Reserve' /\ version' \in 0..MaxVersion
  BY <1>2, <1>4, ReserveKept DEF TypeOK
<1>. QED
  BY <1>1, <1>2, <1>3, <1>5, JobMoves

(* The shard is read. *)
LEMMA ReadDataKeeps == ASSUME Stored, NEW c \in Clones, ReadData(c) PROVE Stored'
<1>1. job[c].pc = "data" /\ UNCHANGED <<meta, files, fresh, version, past>>
  BY DEF ReadData, At
<1>2. job[c] \in Jobs /\ Holds(c, job[c])
  BY <1>1, JobIs DEF Training
<1>3. PICK r : r = [job[c] EXCEPT !.pc = IF Exists(file, c) THEN "weights" ELSE "loop"]
  OBVIOUS
<1>4. /\ r \in Jobs /\ r.pc \in {"weights", "loop"} /\ r.shape = job[c].shape /\ r.parent = job[c].parent
      /\ r.moments = job[c].moments
  BY <1>2, <1>3 DEF Jobs
<1>5. Go(c, r)
  BY <1>3 DEF ReadData
<1>6. Holds(c, r)
  BY <1>1, <1>2, <1>4 DEF Holds
<1>. QED
  BY <1>1, <1>4, <1>5, <1>6, JobGoes DEF Waits

(* The weights are read, or are gone. *)
LEMMA ReadWeightsKeeps == ASSUME Stored, NEW c \in Clones, ReadWeights(c) PROVE Stored'
<1>1. job[c].pc = "weights" /\ UNCHANGED <<meta, files, fresh, version, past>>
  BY DEF ReadWeights, At
<1>2. job[c] \in Jobs /\ Holds(c, job[c]) /\ Training(c) /\ TypeOK
  BY <1>1, JobIs DEF Training, Stored, Inv
<1>3. CASE WeightsGone(c)
  BY <1>1, <1>2, <1>3, JobEnds DEF WeightsGone, At, past
<1>. DEFINE w == Read(file, c)
<1>4. CASE ~WeightsGone(c)
  <2>1. w \in Files /\ (c \notin torn /\ adam[c] # NoFile => w = adam[c])
    <3>1. file \in [Ids -> Files] /\ c \in Ids
      BY <1>2 DEF TypeOK, Ids
    <3>2. w \in Files
      BY <3>1, FollowIs
    <3>3. ASSUME c \notin torn, adam[c] # NoFile PROVE w = adam[c]
      <4>1. file[c] = adam[c] /\ file[c].link = None
        BY <1>1, <3>3 DEF Stored, Inv, PairedOptimum, LinksOwned, IsLink, At
      <4>. QED
        BY <3>1, <4>1, ReadOwn
    <3>. QED
      BY <3>2, <3>3
  <2>2. PICK r : r = IF w.shape # job[c].shape THEN [job[c] EXCEPT !.pc = "loop"]
                     ELSE [job[c] EXCEPT !.warm = w.version, !.pc = IF adam[c] # NoFile THEN "moments" ELSE "loop"]
    OBVIOUS
  <2>3. Go(c, r)
    BY <1>4, <2>2 DEF ReadWeights
  <2>4. /\ r \in Jobs /\ r.pc \in {"moments", "loop"} /\ r.shape = job[c].shape /\ r.parent = job[c].parent
        /\ r.moments = job[c].moments /\ (r.pc = "moments" => adam[c] # NoFile /\ r.warm = w.version)
    <3>1. w.version \in 0..MaxVersion
      BY <2>1 DEF Files
    <3>. HIDE DEF w
    <3>. QED
      BY <1>2, <2>2, <3>1 DEF Jobs
  <2>5. Holds(c, r)
    <3>. HIDE DEF w
    <3>. QED
      BY <1>1, <1>2, <2>1, <2>4 DEF Holds
  <2>. QED
    BY <1>1, <2>3, <2>4, <2>5, JobGoes DEF Waits
<1>. QED
  BY <1>3, <1>4

(* The optimizer state is read. *)
LEMMA ReadMomentsKeeps == ASSUME Stored, NEW c \in Clones, ReadMoments(c) PROVE Stored'
<1>1. job[c].pc = "moments" /\ UNCHANGED <<meta, files, fresh, version, past>>
  BY DEF ReadMoments, At
<1>2. job[c] \in Jobs /\ Holds(c, job[c]) /\ TypeOK
  BY <1>1, JobIs DEF Training, Stored, Inv
<1>3. PICK m \in 0..MaxVersion : /\ m = IF adam[c].shape = job[c].shape THEN adam[c].version ELSE 0
                                /\ m \in {0, adam[c].version}
  <2>1. adam[c].version \in 0..MaxVersion /\ 0 \in 0..MaxVersion
    BY <1>2, LibraryAssumption DEF TypeOK, Files
  <2>. QED
    BY <2>1
<1>4. PICK r : r = [job[c] EXCEPT !.pc = "loop", !.moments = m]
  OBVIOUS
<1>5. /\ r \in Jobs /\ r.pc = "loop" /\ r.shape = job[c].shape /\ r.parent = job[c].parent
      /\ r.moments = m /\ r.warm = job[c].warm
  BY <1>2, <1>4 DEF Jobs
<1>6. Go(c, r)
  BY <1>3, <1>4 DEF ReadMoments
<1>7. Holds(c, r)
  BY <1>1, <1>2, <1>3, <1>5 DEF Holds
<1>. QED
  BY <1>1, <1>5, <1>6, <1>7, JobGoes DEF Waits

(* The loop ends, with weights of its own or those it started from. *)
LEMMA LoopEndsKeeps == ASSUME Stored, NEW c \in Clones, LoopEnds(c) PROVE Stored'
<1>1. job[c].pc = "loop" /\ UNCHANGED <<meta, files, fresh, past>>
  BY DEF LoopEnds, At
<1>2. /\ job[c] \in Jobs /\ Holds(c, job[c]) /\ TypeOK /\ Reserve /\ job[c].shape \in Shapes
      /\ config[c] # None /\ c \notin fresh /\ (~renamed => job[c].parent = parent[c])
  BY <1>1, JobIs DEF Training, Stored, Inv
<1>3. CASE NewVersion /\ Go(c, [job[c] EXCEPT !.pc = "save", !.moments = version', !.out = Bytes(job[c].shape, version')])
  <2>1. PICK v : v = version'
    OBVIOUS
  <2>2. PICK r : r = [job[c] EXCEPT !.pc = "save", !.moments = v, !.out = Bytes(job[c].shape, v)]
    OBVIOUS
  <2>3. job' = [job EXCEPT ![c] = r] /\ UNCHANGED stopping
    BY <1>3, <2>1, <2>2 DEF Go
  <2>4. v \in 0..MaxVersion /\ v # 0
    <3>1. version + 1 \in Nat \ {0} /\ version \in Nat
      BY <1>2, LibraryAssumption DEF TypeOK
    <3>2. Cardinality(Pending) \in Nat /\ Cardinality(Pending) # 0
      <4>1. c \in Pending /\ Pending \subseteq Clones
        BY <1>1 DEF Pending
      <4>. QED
        BY <4>1, ClonesAreFinite, FS_EmptySet
    <3>3. version + 1 <= MaxVersion
      BY <1>2, <3>1, <3>2, LibraryAssumption DEF Reserve
    <3>. QED
      BY <1>3, <2>1, <3>1, <3>3, LibraryAssumption DEF NewVersion
  <2>5. /\ r \in Jobs /\ r.pc = "save" /\ r.shape = job[c].shape /\ r.parent = job[c].parent
        /\ r.moments = v /\ r.out = Bytes(job[c].shape, v) /\ r.out.version = v
    <3>1. Bytes(job[c].shape, v) \in Files /\ Bytes(job[c].shape, v).version = v
      BY <1>2, <2>4, FileIs
    <3>. QED
      BY <1>2, <2>2, <2>4, <3>1 DEF Jobs
  <2>6. Holds(c, r)
    BY <2>4, <2>5 DEF Holds
  <2>7. Reserve' /\ version' \in 0..MaxVersion
    BY <1>1, <1>2, <1>3, <2>3, <2>5, ReserveUsed DEF Waits
  <2>8. ~At(c, "saveAdam") /\ UNCHANGED <<torn, renamed>> /\ stopping' \subseteq Clones
    BY <1>1, <1>2, <2>3 DEF At, past, TypeOK
  <2>. QED
    BY <1>1, <1>2, <2>3, <2>5, <2>6, <2>7, <2>8, JobMoves
<1>4. CASE /\ job[c].warm # 0 /\ UNCHANGED version
           /\ Go(c, [job[c] EXCEPT !.pc = "save", !.out = Bytes(job[c].shape, job[c].warm),
                                   !.moments = IF @ = 0 THEN job[c].warm ELSE @])
  <2>1. PICK w : w = job[c].warm
    OBVIOUS
  <2>2. PICK m : m = IF job[c].moments = 0 THEN w ELSE job[c].moments
    OBVIOUS
  <2>3. PICK r : r = [job[c] EXCEPT !.pc = "save", !.out = Bytes(job[c].shape, w), !.moments = m]
    OBVIOUS
  <2>4. Go(c, r)
    BY <1>4, <2>1, <2>2, <2>3
  <2>5. w \in 0..MaxVersion /\ w # 0 /\ m \in 0..MaxVersion /\ (c \notin torn => m = w)
    BY <1>1, <1>2, <1>4, <2>1, <2>2 DEF Jobs, Holds
  <2>6. /\ r \in Jobs /\ r.pc = "save" /\ r.shape = job[c].shape /\ r.parent = job[c].parent
        /\ r.moments = m /\ r.out = Bytes(job[c].shape, w) /\ r.out.version = w
    <3>1. Bytes(job[c].shape, w) \in Files /\ Bytes(job[c].shape, w).version = w
      BY <1>2, <2>5, FileIs
    <3>. QED
      BY <1>2, <2>3, <2>5, <3>1 DEF Jobs
  <2>7. Holds(c, r)
    BY <2>5, <2>6 DEF Holds
  <2>. QED
    BY <1>1, <1>4, <2>4, <2>6, <2>7, JobGoes DEF Waits
<1>. QED
  BY <1>3, <1>4 DEF LoopEnds

(* An await rejects. *)
LEMMA TrainThrowsKeeps == ASSUME Stored, NEW c \in Clones, TrainThrows(c) PROVE Stored'
BY JobEnds DEF TrainThrows, At

-----------------------------------------------------------------------------
(* The operations on files.                                                  *)

(* Links, at the next state, of a table of files by a name of its own.       *)
LEMMA NextLinks ==
  ASSUME NEW g, g = file', ~renamed' => \A d \in Clones : IsLink(g, d) => Exists(g, d)
  PROVE  LinksResolve'
BY DEF LinksResolve

(* What a training holds stays, unless its pair is torn.                     *)
LEMMA HoldsStay ==
  ASSUME NEW d \in Clones, NEW j, Holds(d, j), d \notin torn' => d \notin torn,
         d \notin torn' => adam'[d] = adam[d] /\ (file[d].link = None => file'[d] = file[d])
  PROVE  Holds(d, j)'
<1>1. j.pc = "saveAdam" /\ d \notin torn' => file'[d] = Bytes(j.shape, j.moments)
  <2>1. Bytes(j.shape, j.moments).link = None
    BY DEF Bytes
  <2>. QED
    BY <2>1 DEF Holds
<1>. QED
  BY <1>1 DEF Holds

(* New weights: an export's, or those of a variant whose result was accepted. *)
LEMMA Written ==
  ASSUME Stored, NEW i \in Ids, i \notin fresh,
         NEW s \in Shapes \cup {None}, s # None \/ i \in Names, config' = [config EXCEPT ![i] = s],
         NEW b \in Files, b.link = None, b.version # 0, file' = [file EXCEPT ![i] = b],
         Reserve', version' \in 0..MaxVersion, torn' = torn \cup ({i} \cap Clones),
         UNCHANGED <<parent, tokRef, adam, tokens, job, stopping, fresh, renamed>>
  PROVE  Stored'
<1>1. TypeOK /\ Table(file) /\ UNCHANGED <<parent, tokRef, adam, tokens, job, stopping, fresh, renamed>>
  BY TableHolds DEF Stored, Inv
<1>5. PICK g : g = file'
  OBVIOUS
<1>6. g = [file EXCEPT ![i] = b]
  BY <1>5
<1>7. Table(g) /\ \A k \in Ids : Exists(file, k) => Exists(g, k)
  BY <1>1, <1>6, BytesKeep
<1>8. /\ \A k \in Ids : g[k] = IF k = i THEN b ELSE file[k]
      /\ \A k \in Ids : config'[k] = IF k = i THEN s ELSE config[k]
  BY <1>1, <1>6 DEF TypeOK
<1>9. (s # None \/ i \notin Clones) /\ \A c \in Clones : c \in Ids
  BY LibraryAssumption DEF Ids
<1>10. TypeOK'
  BY <1>1, <1>5, <1>7 DEF TypeOK, Table
<1>11. TrainedVariantExists'
  BY <1>1, <1>8, <1>9 DEF Stored, Inv, TrainedVariantExists, Training
<1>12. LinksResolve'
  <2>1. ASSUME ~renamed, NEW d \in Clones, IsLink(g, d) PROVE Exists(g, d)
    <3>1. IsLink(file, d) /\ d \in Ids
      BY <1>8, <1>9, <2>1 DEF IsLink
    <3>2. Exists(file, d)
      BY <2>1, <3>1 DEF Stored, Inv, LinksResolve
    <3>. QED
      BY <1>7, <3>1, <3>2
  <2>2. ~renamed' => \A d \in Clones : IsLink(g, d) => Exists(g, d)
    BY <1>1, <2>1
  <2>. QED
    BY <1>5, <2>2, NextLinks
<1>13. PairedOptimum'
  BY <1>1, <1>5, <1>8, <1>9 DEF Stored, Inv, PairedOptimum, At
<1>14. NeverMade'
  <2>1. \A c \in fresh : c \in Clones /\ c # i /\ c # None
    BY <1>1, <1>9, LibraryAssumption DEF TypeOK
  <2>. QED
    BY <1>1, <1>5, <1>8, <1>9, <2>1 DEF Stored, NeverMade
<1>15. LinksOwned'
  <2>1. \A n \in Names : n \in Ids
    BY DEF Ids
  <2>. QED
    BY <1>1, <1>5, <1>8, <1>9, <2>1 DEF Stored, LinksOwned, IsLink, Training
<1>16. Trainings'
  <2>1. ASSUME NEW d \in Clones, NEW j, j = job'[d], j.pc # "off"
        PROVE  j.shape \in Shapes /\ Holds(d, j)'
    <3>1. j.shape \in Shapes /\ Holds(d, j)
      BY <1>1, <2>1 DEF Stored, Trainings, Training
    <3>2. d \notin torn' => d \notin torn /\ adam'[d] = adam[d] /\ file'[d] = file[d]
      BY <1>1, <1>5, <1>8, <1>9
    <3>. QED
      BY <3>1, <3>2, HoldsStay
  <2>. QED
    BY <2>1, NextTrainings
<1>. QED
  BY <1>10, <1>11, <1>12, <1>13, <1>14, <1>15, <1>16 DEF Stored, Inv

(* A pipeline result is accepted into a model. *)
LEMMA AcceptKeeps ==
  ASSUME Stored, scene.versions \in 0..MaxVersion, NEW i \in Ids, NEW s \in Shapes, Accept(i, s)
  PROVE  Stored'
<1>1. i \notin fresh /\ TypeOK
  BY DEF Stored, Inv, NeverMade, Accept
<1>2. /\ Spare /\ NewVersion /\ config' = [config EXCEPT ![i] = s] /\ file' = [file EXCEPT ![i] = Bytes(s, version')]
      /\ UNCHANGED <<parent, tokRef, adam, tokens, job, stopping, fresh, renamed>>
      /\ torn' = torn \cup ({i} \cap Clones)
  BY DEF Accept, train
<1>3. Reserve' /\ version' \in 0..MaxVersion /\ version' # 0
  BY <1>1, <1>2, SpareUsed
<1>4. PICK b \in Files : b = Bytes(s, version') /\ b.link = None /\ b.version # 0
  BY <1>3, FileIs
<1>5. file' = [file EXCEPT ![i] = b] /\ s # None
  BY <1>2, <1>4, LibraryAssumption
<1>. QED
  BY <1>1, <1>2, <1>3, <1>4, <1>5, Written

(* A new variant, with no weights or a link to weights that are there.       *)
LEMMA Made ==
  ASSUME Stored, NEW c \in fresh, fresh' = fresh \ {c}, NEW s \in Shapes, config' = [config EXCEPT ![c] = s],
         NEW p \in Ids \cup {None}, parent' = [parent EXCEPT ![c] = p],
         NEW t \in Names \cup {SharedTok, None}, tokRef' = [tokRef EXCEPT ![c] = t],
         NEW b, b = NoFile \/ (b = Link(p) /\ p \in Ids \ fresh /\ Exists(file, p)),
         file' = [file EXCEPT ![c] = b],
         UNCHANGED <<adam, tokens, train, version, past>>
  PROVE  Stored'
<1>1. TypeOK /\ Table(file) /\ c \in Clones /\ UNCHANGED <<adam, tokens, job, stopping, version, torn, renamed>>
  BY TableHolds DEF Stored, Inv, train, past, TypeOK
<1>2. /\ c \in Ids /\ config[c] = None /\ file[c] = NoFile /\ adam[c] = NoFile
      /\ \A i \in Ids : file[i].link # c
  BY <1>1 DEF Stored, NeverMade, Ids
<1>3. /\ b \in Files /\ b.version = 0 /\ (b.link # None => b = Link(p) /\ b.link = p /\ p \in Ids \ fresh /\ Exists(file, p))
      /\ s # None
  BY FileIs, LibraryAssumption
<1>4. PICK g : g = file'
  OBVIOUS
<1>5. g = [file EXCEPT ![c] = b]
  BY <1>4
<1>6. Table(g) /\ \A k \in Ids : Exists(file, k) => k # c /\ Exists(g, k)
  BY <1>1, <1>2, <1>3, <1>5, NewKeeps
<1>7. /\ \A k \in Ids : g[k] = IF k = c THEN b ELSE file[k]
      /\ \A k \in Ids : config'[k] = IF k = c THEN s ELSE config[k]
      /\ \A k \in Clones : parent'[k] = IF k = c THEN p ELSE parent[k]
  BY <1>1, <1>5 DEF TypeOK
<1>8. \A d \in Clones : d \in Ids /\ d # None
  BY LibraryAssumption DEF Ids
<1>9. ~Training(c)
  BY <1>1 DEF Stored, Inv, TrainedVariantExists
<1>10. TypeOK'
  BY <1>1, <1>4, <1>6 DEF TypeOK, Table
<1>11. TrainedVariantExists'
  BY <1>1, <1>3, <1>7, <1>8 DEF Stored, Inv, TrainedVariantExists, Training
<1>12. LinksResolve'
  <2>1. ASSUME ~renamed, NEW d \in Clones, IsLink(g, d) PROVE Exists(g, d)
    <3>1. CASE d = c
      <4>1. g[c] = b /\ b.link = p /\ p \in Ids /\ Exists(g, p) /\ g[c].link # None
        BY <1>2, <1>3, <1>6, <1>7, <2>1, <3>1 DEF IsLink
      <4>. QED
        BY <1>2, <1>6, <3>1, <4>1, ReadOver
    <3>2. CASE d # c
      <4>1. IsLink(file, d) /\ d \in Ids
        BY <1>7, <1>8, <2>1, <3>2 DEF IsLink
      <4>2. Exists(file, d)
        BY <2>1, <4>1 DEF Stored, Inv, LinksResolve
      <4>. QED
        BY <1>6, <4>1, <4>2
    <3>. QED
      BY <3>1, <3>2
  <2>2. ~renamed' => \A d \in Clones : IsLink(g, d) => Exists(g, d)
    BY <1>1, <2>1
  <2>. QED
    BY <1>4, <2>2, NextLinks
<1>13. PairedOptimum'
  BY <1>1, <1>2, <1>4, <1>7, <1>8 DEF Stored, Inv, PairedOptimum, At
<1>14. NeverMade'
  <2>1. \A d \in fresh' : d \in fresh /\ d \in Clones /\ d # c
    BY <1>1 DEF TypeOK
  <2>2. ASSUME NEW d \in fresh' PROVE config'[d] = None /\ file'[d] = NoFile /\ adam'[d] = NoFile
    BY <1>1, <1>4, <1>7, <1>8, <2>1 DEF Stored, NeverMade
  <2>3. ASSUME NEW d \in fresh', NEW i \in Ids PROVE file'[i].link # d
    <3>1. d \in fresh /\ d # None /\ file[i].link # d
      BY <1>8, <2>1 DEF Stored, NeverMade
    <3>2. b.link # d
      BY <1>3, <3>1
    <3>. QED
      BY <1>4, <1>7, <3>1, <3>2
  <2>. QED
    BY <2>2, <2>3 DEF NeverMade
<1>15. LinksOwned'
  <2>1. \A n \in Names : n \in Ids /\ n # c
    BY <1>1, LibraryAssumption DEF Ids
  <2>2. \A n \in Names : ~IsLink(g, n)
    BY <1>7, <2>1 DEF Stored, LinksOwned, IsLink
  <2>3. \A d \in Clones : ~IsLink(adam, d) /\ (IsLink(g, d) => g[d].version = 0)
    BY <1>3, <1>7, <1>8 DEF Stored, LinksOwned, IsLink
  <2>4. ASSUME ~renamed, NEW d \in Clones
        PROVE  /\ IsLink(g, d) => config'[d] # None /\ g[d].link = parent'[d]
               /\ Training(d) => job[d].parent = parent'[d]
    BY <1>3, <1>7, <1>8, <1>9, <2>4 DEF Stored, LinksOwned, IsLink
  <2>. QED
    BY <1>1, <1>4, <2>2, <2>3, <2>4 DEF LinksOwned, IsLink, Training
<1>16. Trainings'
  <2>1. ASSUME NEW d \in Clones, NEW j, j = job'[d], j.pc # "off"
        PROVE  j.shape \in Shapes /\ Holds(d, j)'
    <3>1. j.shape \in Shapes /\ Holds(d, j)
      BY <1>1, <2>1 DEF Stored, Trainings, Training
    <3>2. d # c /\ torn' = torn /\ adam'[d] = adam[d] /\ file'[d] = file[d]
      BY <1>1, <1>4, <1>7, <1>8, <1>9, <2>1 DEF Training
    <3>. QED
      BY <3>1, <3>2, HoldsStay
  <2>. QED
    BY <2>1, NextTrainings
<1>17. Reserve'
  BY <1>1, ReserveKept DEF Stored
<1>. QED
  BY <1>10, <1>11, <1>12, <1>13, <1>14, <1>15, <1>16, <1>17 DEF Stored, Inv

(* A variant is made without weights. *)
LEMMA CreateKeeps == ASSUME Stored, NEW c \in Clones, NEW s \in Shapes, Create(c, s) PROVE Stored'
<1>1. /\ c \in fresh /\ fresh' = fresh \ {c} /\ config' = [config EXCEPT ![c] = s]
      /\ tokRef' = [tokRef EXCEPT ![c] = SharedTok] /\ UNCHANGED <<adam, tokens, train, version, past>>
      /\ UNCHANGED <<parent, file>>
  BY DEF Create, files
<1>2. TypeOK /\ file[c] = NoFile
  BY <1>1 DEF Stored, Inv, NeverMade
<1>3. PICK p \in Ids \cup {None} : p = parent[c]
  BY <1>2 DEF TypeOK
<1>4. parent' = [parent EXCEPT ![c] = p] /\ file' = [file EXCEPT ![c] = NoFile]
  BY <1>1, <1>2, <1>3 DEF TypeOK, Ids
<1>. QED
  BY <1>1, <1>3, <1>4, Made

(* A variant is cloned, with a link to the weights of its source or without any. *)
LEMMA CloneKeeps == ASSUME Stored, NEW c \in Clones, NEW i \in Ids, NEW s \in Shapes, Clone(c, i, s) PROVE Stored'
<1>1. /\ c \in fresh /\ fresh' = fresh \ {c} /\ config' = [config EXCEPT ![c] = s] /\ config[i] # None
      /\ parent' = [parent EXCEPT ![c] = i] /\ UNCHANGED <<adam, tokens, train, version, past>>
  BY DEF Clone
<1>2. PICK t : t = TokenizerOf(i)
  OBVIOUS
<1>3. t \in Names \cup {SharedTok, None}
  BY <1>2 DEF TokenizerOf, Stored, Inv, TypeOK
<1>4. tokRef' = [tokRef EXCEPT ![c] = t]
  BY <1>2 DEF Clone
<1>5. PICK b : b = ClonedWeights(i, s)
  OBVIOUS
<1>6. i \notin fresh
  BY <1>1 DEF Stored, NeverMade
<1>7. b = NoFile \/ (b = Link(i) /\ i \in Ids \ fresh /\ Exists(file, i))
  BY <1>5, <1>6 DEF ClonedWeights
<1>8. file' = [file EXCEPT ![c] = b] /\ i \in Ids \cup {None}
  BY <1>5 DEF Clone
<1>. QED
  BY <1>1, <1>3, <1>4, <1>7, <1>8, Made

(* A deletion turns the links of the children into copies and touches no     *)
(* other file; until an export is renamed, what is read stays the same.      *)
LEMMA DeleteFiles ==
  ASSUME Stored, NEW id \in Ids, Delete(id), NEW g, g = file'
  PROVE  /\ Table(g) /\ g[id] = NoFile
         /\ \A k \in Ids \ {id} :
              g[k] = file[k] \/ (k \in Clones /\ file[k].link # None /\ config[k] # None /\ g[k].link = None)
         /\ ~renamed => \A k \in Ids \ {id} : Exists(file, k) => Exists(g, k) /\ Read(g, k) = Read(file, k)
<1>1. TypeOK /\ Table(file) /\ file \in [Ids -> Files]
  BY TableHolds DEF Stored, Inv, Table
<1>. DEFINE K == { k \in Clones : /\ config[k] # None /\ parent[k] = id /\ file[k].link # None
                                  /\ Exists(file, k) /\ Exists(file, id) }
<1>2. K \in SUBSET Ids
  BY DEF Ids
<1>3. g = [i \in Ids |-> IF i = id THEN NoFile ELSE IF i \in K THEN Read(file, id) ELSE file[i]]
  <2>1. file' = [Materialized(id) EXCEPT ![id] = NoFile]
    BY DEF Delete
  <2>2. Materialized(id) = [i \in Ids |-> IF i \in K THEN Read(file, id) ELSE file[i]]
    BY DEF Materialized, IsLink
  <2>. HIDE DEF K
  <2>. QED
    BY <2>1, <2>2
<1>4. \A i \in Ids : g[i] = IF i = id THEN NoFile ELSE IF i \in K THEN Read(file, id) ELSE file[i]
  <2>. HIDE DEF K
  <2>. QED
    BY <1>3
<1>5. K # {} => Read(file, id).link = None
  BY <1>1, ExistsAtEnd
<1>6. Table(g)
  <2>1. Read(file, id) \in Files
    BY <1>1, FollowIs
  <2>2. g \in [Ids -> Files]
    <3>. HIDE DEF K
    <3>. QED
      BY <1>1, <1>3, <2>1, FileIs
  <2>. HIDE DEF K
  <2>. QED
    BY <1>1, <1>4, <1>5, <2>2, FileIs DEF Table
<1>7. \A k \in Ids \ {id} :
        g[k] = file[k] \/ (k \in Clones /\ file[k].link # None /\ config[k] # None /\ g[k].link = None)
  BY <1>4, <1>5
<1>8. ASSUME ~renamed
      PROVE  \A k \in Ids \ {id} : Exists(file, k) => Exists(g, k) /\ Read(g, k) = Read(file, k)
  <2>1. ASSUME NEW k \in Ids, file[k].link # None PROVE k \in Clones /\ config[k] # None /\ parent[k] = file[k].link
    BY <1>8, <2>1 DEF Stored, LinksOwned, IsLink, Ids
  <2>2. \A k \in K : file[k].link = id /\ Exists(file, id)
    BY <1>2, <2>1
  <2>3. \A k \in Ids : file[k].link = id /\ Exists(file, k) => k \in K
    BY <1>1, <2>1, ReadOver, LibraryAssumption
  <2>4. PICK L \in SUBSET Ids : L = K
    BY <1>2
  <2>5. Table(file) /\ (\A k \in L : file[k].link = id /\ Exists(file, id))
    BY <1>1, <2>2, <2>4
  <2>6. \A k \in Ids : file[k].link = id /\ Exists(file, k) => k \in L
    BY <2>3, <2>4
  <2>7. Copied(file, id, L, g)
    BY <1>4, <1>6, <2>4 DEF Table, Copied
  <2>. HIDE DEF K
  <2>. QED
    BY <2>5, <2>6, <2>7, CopiesKeep
<1>. QED
  BY <1>4, <1>6, <1>7, <1>8

(* A model is deleted. *)
LEMMA DeleteKeeps == ASSUME Stored, NEW id \in Ids, Delete(id) PROVE Stored'
<1>1. TypeOK /\ UNCHANGED <<job, stopping, fresh, version, torn, renamed>>
  BY DEF Stored, Inv, Delete, train, past
<1>2. config[id] # None /\ (id \in Clones => ~Training(id)) /\ id \notin fresh
  BY DEF Delete, Idle, Stored, NeverMade
<1>3. PICK g : g = file'
  OBVIOUS
<1>4. /\ Table(g) /\ g[id] = NoFile
      /\ \A k \in Ids \ {id} :
           g[k] = file[k] \/ (k \in Clones /\ file[k].link # None /\ config[k] # None /\ g[k].link = None)
      /\ ~renamed => \A k \in Ids \ {id} : Exists(file, k) => Exists(g, k)
  BY <1>3, DeleteFiles
<1>5. /\ config' = [config EXCEPT ![id] = None]
      /\ parent' \in [Clones -> Ids \cup {None}] /\ tokRef' \in [Clones -> Names \cup {SharedTok, None}]
      /\ adam' \in [Clones -> Files] /\ tokens' \subseteq Names
      /\ \A c \in Clones \ {id} : parent'[c] = parent[c] /\ adam'[c] = adam[c]
      /\ id \in Clones => adam'[id] = NoFile
  BY <1>1, FileIs DEF Delete, TypeOK
<1>6. \A k \in Ids : config'[k] = IF k = id THEN None ELSE config[k]
  BY <1>1, <1>5 DEF TypeOK
<1>7. /\ \A c \in Clones : c \in Ids /\ c # None
      /\ \A n \in Names : n \in Ids /\ n \notin Clones
  BY LibraryAssumption DEF Ids
<1>8. TypeOK'
  <2>1. config' \in [Ids -> Shapes \cup {None}]
    BY <1>1, <1>5 DEF TypeOK
  <2>. QED
    BY <1>1, <1>3, <1>4, <1>5, <2>1 DEF TypeOK, Table
<1>9. TrainedVariantExists'
  BY <1>1, <1>2, <1>6, <1>7 DEF Stored, Inv, TrainedVariantExists, Training
<1>10. LinksResolve'
  <2>1. ASSUME ~renamed, NEW d \in Clones, IsLink(g, d) PROVE Exists(g, d)
    <3>1. d \in Ids \ {id} /\ IsLink(file, d)
      BY <1>4, <1>7, <2>1, FileIs DEF IsLink
    <3>2. Exists(file, d)
      BY <2>1, <3>1 DEF Stored, Inv, LinksResolve
    <3>. QED
      BY <1>4, <2>1, <3>1, <3>2
  <2>2. ~renamed' => \A d \in Clones : IsLink(g, d) => Exists(g, d)
    BY <1>1, <2>1
  <2>. QED
    BY <1>3, <2>2, NextLinks
<1>11. PairedOptimum'
  <2>1. ASSUME NEW c \in Clones, c \notin torn, adam'[c] # NoFile, ~At(c, "saveAdam") PROVE g[c] = adam'[c]
    <3>1. c # id /\ c \in Ids /\ adam'[c] = adam[c]
      BY <1>5, <1>7, <2>1
    <3>2. file[c] = adam[c] /\ adam[c].link = None
      BY <2>1, <3>1 DEF Stored, Inv, PairedOptimum, LinksOwned, IsLink
    <3>. QED
      BY <1>4, <3>1, <3>2
  <2>. QED
    BY <1>1, <1>3, <2>1 DEF PairedOptimum, At
<1>12. NeverMade'
  <2>1. ASSUME NEW c \in fresh
        PROVE  config'[c] = None /\ g[c] = NoFile /\ adam'[c] = NoFile /\ \A i \in Ids : g[i].link # c
    <3>1. /\ c \in Clones /\ c \in Ids \ {id} /\ c # None
          /\ config[c] = None /\ file[c] = NoFile /\ adam[c] = NoFile /\ \A i \in Ids : file[i].link # c
      BY <1>1, <1>2, <1>7 DEF TypeOK, Stored, NeverMade
    <3>. QED
      BY <1>4, <1>5, <1>6, <3>1, FileIs
  <2>. QED
    BY <1>1, <1>3, <2>1 DEF NeverMade
<1>13. LinksOwned'
  <2>1. \A n \in Names : ~IsLink(g, n)
    BY <1>4, <1>7, FileIs DEF Stored, LinksOwned, IsLink
  <2>2. \A d \in Clones : ~IsLink(adam', d)
    BY <1>5, FileIs DEF Stored, LinksOwned, IsLink
  <2>3. \A d \in Clones : IsLink(g, d) => g[d].version = 0
    BY <1>4, <1>7 DEF Table, IsLink
  <2>4. ASSUME ~renamed, NEW d \in Clones
        PROVE  /\ IsLink(g, d) => config'[d] # None /\ g[d].link = parent'[d]
               /\ Training(d) => job[d].parent = parent'[d]
    <3>1. CASE d = id
      BY <1>2, <1>4, <3>1, FileIs DEF IsLink
    <3>2. CASE d # id
      BY <1>4, <1>5, <1>6, <1>7, <2>4, <3>2 DEF Stored, LinksOwned, IsLink
    <3>. QED
      BY <3>1, <3>2
  <2>. QED
    BY <1>1, <1>3, <2>1, <2>2, <2>3, <2>4 DEF LinksOwned, IsLink, Training
<1>14. Trainings'
  <2>1. ASSUME NEW d \in Clones, NEW j, j = job'[d], j.pc # "off"
        PROVE  j.shape \in Shapes /\ Holds(d, j)'
    <3>1. j.shape \in Shapes /\ Holds(d, j) /\ d # id
      BY <1>1, <1>2, <2>1 DEF Stored, Trainings, Training
    <3>2. adam'[d] = adam[d] /\ (file[d].link = None => file'[d] = file[d]) /\ torn' = torn
      BY <1>1, <1>3, <1>4, <1>5, <1>7, <3>1
    <3>. QED
      BY <3>1, <3>2, HoldsStay
  <2>. QED
    BY <2>1, NextTrainings
<1>15. Reserve'
  BY <1>1, ReserveKept DEF Stored
<1>. QED
  BY <1>8, <1>9, <1>10, <1>11, <1>12, <1>13, <1>14, <1>15 DEF Stored, Inv

(* A rename moves an export's bytes and re-points links; a variant's own     *)
(* weights stay.                                                             *)
LEMMA RenameFiles ==
  ASSUME Stored, NEW n \in Names, NEW m \in Names, Rename(n, m), NEW g, g = file'
  PROVE  /\ Table(g) /\ \A k \in Names : g[k].link = None
         /\ \A c \in Clones : /\ g[c] = file[c] \/ (file[c].link = n /\ config[c] # None /\ g[c].link # None)
                              /\ g[c].link \in {file[c].link, m}
<1>1. TypeOK /\ Table(file) /\ file \in [Ids -> Files]
  BY TableHolds DEF Stored, Inv, Table
<1>2. n \in Ids /\ m \in Ids /\ n # None /\ n # m /\ n \notin Clones /\ m \notin Clones
  BY LibraryAssumption DEF Ids, Rename
<1>3. PICK h : h = [file EXCEPT ![m] = IF file[n] = NoFile THEN @ ELSE file[n], ![n] = NoFile]
  OBVIOUS
<1>4. g = [i \in Ids |-> IF i \in Clones /\ config[i] # None /\ Exists(h, i) /\ h[i].link = n THEN Link(m) ELSE h[i]]
  BY <1>3 DEF Rename
<1>5. \A i \in Ids : h[i] = IF i = n THEN NoFile
                            ELSE IF i = m THEN (IF file[n] = NoFile THEN file[m] ELSE file[n]) ELSE file[i]
  BY <1>1, <1>2, <1>3
<1>6. h \in [Ids -> Files]
  BY <1>1, <1>2, <1>3, FileIs
<1>7. \A i \in Ids : g[i] = h[i] \/ (i \in Clones /\ config[i] # None /\ h[i].link = n /\ g[i] = Link(m))
  BY <1>4
<1>8. \A k \in Names : file[k].link = None /\ k \in Ids /\ k \notin Clones
  BY LibraryAssumption DEF Stored, LinksOwned, IsLink, Ids
<1>9. Table(g)
  <2>1. g \in [Ids -> Files]
    BY <1>2, <1>4, <1>6, FileIs
  <2>2. \A k \in Ids : h[k].link # None => h[k].version = 0
    BY <1>1, <1>2, <1>5, FileIs DEF Table
  <2>. QED
    BY <1>2, <1>7, <2>1, <2>2, FileIs DEF Table
<1>10. \A k \in Names : g[k].link = None
  BY <1>2, <1>5, <1>7, <1>8, FileIs
<1>11. ASSUME NEW c \in Clones
       PROVE  /\ g[c] = file[c] \/ (file[c].link = n /\ config[c] # None /\ g[c].link # None)
              /\ g[c].link \in {file[c].link, m}
  <2>1. c \in Ids /\ h[c] = file[c]
    BY <1>2, <1>5 DEF Ids
  <2>. QED
    BY <1>2, <1>7, <2>1, FileIs
<1>. QED
  BY <1>9, <1>10, <1>11

(* An export is renamed. *)
LEMMA RenameKeeps == ASSUME Stored, NEW n \in Names, NEW m \in Names, Rename(n, m) PROVE Stored'
<1>1. TypeOK /\ UNCHANGED <<adam, job, stopping, fresh, version, torn>> /\ renamed' = TRUE
  BY DEF Stored, Inv, Rename, train
<1>2. /\ n \in Ids /\ m \in Ids /\ n # None /\ n # m /\ n \notin Clones /\ m \notin Clones /\ config[n] # None
      /\ \A c \in Clones : c \in Ids
  BY LibraryAssumption DEF Ids, Rename, Idle
<1>3. PICK g : g = file'
  OBVIOUS
<1>4. /\ Table(g) /\ \A k \in Names : g[k].link = None
      /\ \A c \in Clones : /\ g[c] = file[c] \/ (file[c].link = n /\ config[c] # None /\ g[c].link # None)
                           /\ g[c].link \in {file[c].link, m}
  BY <1>3, RenameFiles
<1>5. /\ config' = [config EXCEPT ![m] = config[n], ![n] = None]
      /\ parent' = [c \in Clones |-> IF parent[c] = n THEN m ELSE parent[c]]
      /\ tokRef' = [c \in Clones |-> IF tokRef[c] = n THEN m ELSE tokRef[c]]
      /\ tokens' = IF n \in tokens THEN (tokens \ {n}) \cup {m} ELSE tokens
  BY DEF Rename
<1>6. \A c \in Clones : config'[c] = config[c]
  BY <1>1, <1>2, <1>5 DEF TypeOK
<1>7. TypeOK'
  <2>1. config' \in [Ids -> Shapes \cup {None}]
    BY <1>1, <1>2, <1>5 DEF TypeOK
  <2>2. parent' \in [Clones -> Ids \cup {None}] /\ tokRef' \in [Clones -> Names \cup {SharedTok, None}]
    BY <1>1, <1>2, <1>5 DEF TypeOK
  <2>3. tokens' \subseteq Names
    BY <1>1, <1>5 DEF TypeOK
  <2>. QED
    BY <1>1, <1>3, <1>4, <2>1, <2>2, <2>3 DEF TypeOK, Table
<1>8. TrainedVariantExists'
  BY <1>1, <1>6 DEF Stored, Inv, TrainedVariantExists, Training
<1>9. LinksResolve'
  BY <1>1 DEF LinksResolve
<1>10. PairedOptimum'
  <2>1. ASSUME NEW c \in Clones, c \notin torn, adam[c] # NoFile, ~At(c, "saveAdam") PROVE g[c] = adam[c]
    <3>1. file[c] = adam[c] /\ adam[c].link = None
      BY <2>1 DEF Stored, Inv, PairedOptimum, LinksOwned, IsLink
    <3>. QED
      BY <1>2, <1>4, <3>1
  <2>. QED
    BY <1>1, <1>3, <2>1 DEF PairedOptimum, At
<1>11. NeverMade'
  <2>1. ASSUME NEW c \in fresh
        PROVE  config'[c] = None /\ g[c] = NoFile /\ adam[c] = NoFile /\ \A i \in Ids : g[i].link # c
    <3>1. /\ c \in Clones /\ c # m /\ c # None
          /\ config[c] = None /\ file[c] = NoFile /\ adam[c] = NoFile /\ \A i \in Ids : file[i].link # c
      BY <1>1, <1>2, LibraryAssumption DEF TypeOK, Stored, NeverMade, Ids
    <3>2. \A i \in Ids : g[i].link # c
      BY <1>2, <1>4, <3>1 DEF Ids
    <3>. QED
      BY <1>4, <1>6, <3>1, <3>2
  <2>. QED
    BY <1>1, <1>3, <2>1 DEF NeverMade
<1>12. LinksOwned'
  <2>1. \A d \in Clones : ~IsLink(adam, d) /\ (IsLink(g, d) => g[d].version = 0)
    BY <1>2, <1>4 DEF Stored, LinksOwned, IsLink, Table
  <2>. QED
    BY <1>1, <1>3, <1>4, <2>1 DEF LinksOwned, IsLink
<1>13. Trainings'
  <2>1. ASSUME NEW d \in Clones, NEW j, j = job'[d], j.pc # "off"
        PROVE  j.shape \in Shapes /\ Holds(d, j)'
    <3>1. j.shape \in Shapes /\ Holds(d, j)
      BY <1>1, <2>1 DEF Stored, Trainings, Training
    <3>2. adam'[d] = adam[d] /\ (file[d].link = None => file'[d] = file[d]) /\ torn' = torn
      BY <1>1, <1>2, <1>3, <1>4
    <3>. QED
      BY <3>1, <3>2, HoldsStay
  <2>. QED
    BY <2>1, NextTrainings
<1>14. Reserve'
  BY <1>1, ReserveKept DEF Stored
<1>. QED
  BY <1>7, <1>8, <1>9, <1>10, <1>11, <1>12, <1>13, <1>14 DEF Stored, Inv

-----------------------------------------------------------------------------
(* The result of a training.                                                 *)

(* A training replaces its own weights.bin. *)
LEMMA SaveWeightsKeeps == ASSUME Stored, NEW c \in Clones, SaveWeights(c) PROVE Stored'
<1>1. /\ TypeOK /\ Table(file) /\ job[c].pc = "save"
      /\ UNCHANGED <<config, parent, tokRef, adam, tokens, fresh, version, renamed, stopping>>
  BY TableHolds DEF Stored, Inv, SaveWeights, At, meta, Go
<1>2. /\ job[c] \in Jobs /\ Holds(c, job[c]) /\ Training(c) /\ job[c].shape \in Shapes
      /\ config[c] # None /\ c \notin fresh
  BY <1>1, JobIs DEF Training
<1>3. PICK b \in Files : /\ b = job[c].out /\ b = Bytes(job[c].shape, b.version)
                         /\ b.link = None /\ b.version # 0
  <2>1. job[c].out \in Files /\ job[c].out = Bytes(job[c].shape, job[c].out.version) /\ job[c].out.version # 0
    BY <1>1, <1>2 DEF Jobs, Holds
  <2>2. Bytes(job[c].shape, job[c].out.version).link = None
    BY DEF Bytes
  <2>. QED
    BY <2>1, <2>2
<1>4. PICK g : g = file'
  OBVIOUS
<1>5. g = [file EXCEPT ![c] = b] /\ c \in Ids
  BY <1>3, <1>4 DEF SaveWeights, Ids
<1>6. Table(g) /\ \A k \in Ids : Exists(file, k) => Exists(g, k)
  BY <1>1, <1>3, <1>5, BytesKeep
<1>7. PICK r : r = [job[c] EXCEPT !.pc = "saveAdam"]
  OBVIOUS
<1>8. /\ r \in Jobs /\ r.pc = "saveAdam" /\ r.shape = job[c].shape /\ r.parent = job[c].parent
      /\ r.moments = job[c].moments
  BY <1>2, <1>7 DEF Jobs
<1>9. job' = [job EXCEPT ![c] = r]
  BY <1>7 DEF SaveWeights, Go
<1>10. /\ \A k \in Ids : g[k] = IF k = c THEN b ELSE file[k]
       /\ \A k \in Clones : job'[k] = IF k = c THEN r ELSE job[k]
       /\ \A k \in Clones : k \in Ids /\ k # None
  BY <1>1, <1>5, <1>9, LibraryAssumption DEF TypeOK, Ids
<1>11. /\ torn' \subseteq torn /\ torn \subseteq torn' \cup {c}
       /\ c \notin torn' => job[c].moments = b.version
  <2>1. torn' = IF job[c].moments = b.version THEN torn \ {c} ELSE torn
    BY <1>3 DEF SaveWeights
  <2>2. c \notin torn => job[c].moments = b.version
    BY <1>1, <1>2, <1>3 DEF Holds
  <2>. QED
    BY <2>1, <2>2
<1>12. TypeOK'
  <2>1. torn' \subseteq Clones /\ job' \in [Clones -> Jobs]
    BY <1>1, <1>8, <1>9, <1>11 DEF TypeOK
  <2>. QED
    BY <1>1, <1>4, <1>6, <2>1 DEF TypeOK, Table
<1>13. TrainedVariantExists'
  BY <1>1, <1>2, <1>10 DEF Stored, Inv, TrainedVariantExists, Training
<1>14. LinksResolve'
  <2>1. ASSUME ~renamed, NEW d \in Clones, IsLink(g, d) PROVE Exists(g, d)
    <3>1. IsLink(file, d) /\ d \in Ids
      BY <1>3, <1>10, <2>1 DEF IsLink
    <3>2. Exists(file, d)
      BY <2>1, <3>1 DEF Stored, Inv, LinksResolve
    <3>. QED
      BY <1>6, <3>1, <3>2
  <2>2. ~renamed' => \A d \in Clones : IsLink(g, d) => Exists(g, d)
    BY <1>1, <2>1
  <2>. QED
    BY <1>4, <2>2, NextLinks
<1>15. PairedOptimum'
  <2>1. ASSUME NEW d \in Clones, d # c, d \notin torn', adam[d] # NoFile, job[d].pc # "saveAdam"
        PROVE  g[d] = adam[d]
    BY <1>10, <1>11, <2>1 DEF Stored, Inv, PairedOptimum, At
  <2>. QED
    BY <1>1, <1>4, <1>8, <1>10, <2>1 DEF PairedOptimum, At
<1>16. NeverMade'
  <2>1. \A d \in fresh : d \in Clones /\ d # c /\ d # None /\ d \in Ids
    BY <1>1, <1>2, <1>10 DEF TypeOK
  <2>. QED
    BY <1>1, <1>3, <1>4, <1>10, <2>1 DEF Stored, NeverMade
<1>17. LinksOwned'
  <2>1. \A n \in Names : n \in Ids
    BY DEF Ids
  <2>2. /\ \A n \in Names : ~IsLink(g, n)
        /\ \A d \in Clones : ~IsLink(adam, d) /\ (IsLink(g, d) => g[d].version = 0)
    BY <1>3, <1>10, <2>1 DEF Stored, LinksOwned, IsLink
  <2>3. ASSUME ~renamed, NEW d \in Clones
        PROVE  /\ IsLink(g, d) => config[d] # None /\ g[d].link = parent[d]
               /\ job'[d].pc # "off" => job'[d].parent = parent[d]
    BY <1>2, <1>3, <1>8, <1>10, <2>3 DEF Stored, LinksOwned, IsLink, Training
  <2>. QED
    BY <1>1, <1>4, <2>2, <2>3 DEF LinksOwned, IsLink, Training
<1>18. Trainings'
  <2>1. ASSUME NEW d \in Clones, NEW j, j = job'[d], j.pc # "off"
        PROVE  j.shape \in Shapes /\ Holds(d, j)'
    <3>1. CASE d = c
      <4>1. j = r
        BY <1>10, <2>1, <3>1
      <4>2. d \notin torn' => file'[d] = Bytes(j.shape, j.moments)
        BY <1>3, <1>4, <1>8, <1>10, <1>11, <3>1, <4>1
      <4>. QED
        BY <1>2, <1>8, <4>1, <4>2 DEF Holds
    <3>2. CASE d # c
      <4>1. j.shape \in Shapes /\ Holds(d, j)
        BY <1>10, <2>1, <3>2 DEF Stored, Trainings, Training
      <4>2. (d \notin torn' => d \notin torn) /\ adam'[d] = adam[d] /\ file'[d] = file[d]
        BY <1>1, <1>4, <1>10, <1>11, <3>2
      <4>. QED
        BY <4>1, <4>2, HoldsStay
    <3>. QED
      BY <3>1, <3>2
  <2>. QED
    BY <2>1, NextTrainings
<1>19. Reserve'
  <2>1. \A d \in Clones : job'[d].pc \in Waits => job[d].pc \in Waits
    BY <1>8, <1>10 DEF Waits
  <2>. QED
    BY <1>1, <2>1, ReserveKept DEF Stored
<1>. QED
  BY <1>12, <1>13, <1>14, <1>15, <1>16, <1>17, <1>18, <1>19 DEF Stored, Inv

(* A training writes its optimizer state and model.json, and ends. *)
LEMMA SaveMomentsKeeps == ASSUME Stored, NEW c \in Clones, SaveMoments(c) PROVE Stored'
<1>1. /\ TypeOK /\ job[c].pc = "saveAdam"
      /\ UNCHANGED <<file, tokens, fresh, version, torn, renamed>>
  BY DEF Stored, Inv, SaveMoments, At, past
<1>2. /\ job[c] \in Jobs /\ Holds(c, job[c]) /\ Training(c) /\ job[c].shape \in Shapes
      /\ config[c] # None /\ c \notin fresh /\ (~renamed => job[c].parent = parent[c])
  BY <1>1, JobIs DEF Training
<1>3. PICK b \in Files : b = BestMoments(c) /\ b = Bytes(job[c].shape, job[c].moments) /\ b.link = None
  <2>1. job[c].moments \in 0..MaxVersion
    BY <1>2 DEF Jobs
  <2>. QED
    BY <1>2, <2>1, FileIs DEF BestMoments
<1>4. /\ adam' = [adam EXCEPT ![c] = b] /\ config' = [config EXCEPT ![c] = job[c].shape]
      /\ parent' = [parent EXCEPT ![c] = job[c].parent] /\ tokRef' = [tokRef EXCEPT ![c] = job[c].tok]
      /\ job' = [job EXCEPT ![c] = NoJob] /\ stopping' = stopping \ {c}
  BY <1>3 DEF SaveMoments, Finish
<1>5. NoJob \in Jobs /\ NoJob.pc = "off"
  BY FileIs, LibraryAssumption DEF NoJob, Jobs
<1>6. /\ \A k \in Clones : k \in Ids /\ k # None
      /\ \A k \in Clones : adam'[k] = IF k = c THEN b ELSE adam[k]
      /\ \A k \in Ids : config'[k] = IF k = c THEN job[c].shape ELSE config[k]
      /\ \A k \in Clones : parent'[k] = IF k = c THEN job[c].parent ELSE parent[k]
      /\ \A k \in Clones : job'[k] = IF k = c THEN NoJob ELSE job[k]
  BY <1>1, <1>4, LibraryAssumption DEF TypeOK, Ids
<1>7. job[c].shape # None
  BY <1>2, LibraryAssumption
<1>8. TypeOK'
  <2>1. job[c].parent \in Ids \cup {None} /\ job[c].tok \in Names \cup {SharedTok, None}
    BY <1>2 DEF Jobs
  <2>2. /\ config' \in [Ids -> Shapes \cup {None}] /\ parent' \in [Clones -> Ids \cup {None}]
        /\ tokRef' \in [Clones -> Names \cup {SharedTok, None}]
    BY <1>1, <1>2, <1>4, <2>1 DEF TypeOK
  <2>3. adam' \in [Clones -> Files] /\ job' \in [Clones -> Jobs] /\ stopping' \subseteq Clones
    BY <1>1, <1>4, <1>5 DEF TypeOK
  <2>. QED
    BY <1>1, <2>2, <2>3 DEF TypeOK
<1>9. TrainedVariantExists'
  BY <1>1, <1>5, <1>6 DEF Stored, Inv, TrainedVariantExists, Training
<1>10. LinksResolve'
  <2>1. PICK g : g = file'
    OBVIOUS
  <2>2. ~renamed' => \A d \in Clones : IsLink(g, d) => Exists(g, d)
    BY <1>1, <2>1 DEF Stored, Inv, LinksResolve
  <2>. QED
    BY <2>1, <2>2, NextLinks
<1>11. PairedOptimum'
  <2>1. c \notin torn => file[c] = b
    BY <1>1, <1>2, <1>3 DEF Holds
  <2>. QED
    BY <1>1, <1>6, <2>1 DEF Stored, Inv, PairedOptimum, At
<1>12. NeverMade'
  <2>1. \A d \in fresh : d \in Clones /\ d # c /\ d \in Ids
    BY <1>1, <1>2, <1>6 DEF TypeOK
  <2>. QED
    BY <1>1, <1>6, <2>1 DEF Stored, NeverMade
<1>13. LinksOwned'
  <2>1. \A d \in Clones : adam'[d].link = None
    BY <1>3, <1>6 DEF Stored, LinksOwned, IsLink
  <2>2. ASSUME ~renamed, NEW d \in Clones
        PROVE  /\ IsLink(file, d) => config'[d] # None /\ file[d].link = parent'[d]
               /\ job'[d].pc # "off" => job'[d].parent = parent'[d]
    BY <1>2, <1>5, <1>6, <1>7, <2>2 DEF Stored, LinksOwned, IsLink, Training
  <2>3. /\ \A n \in Names : ~IsLink(file, n)
        /\ \A d \in Clones : IsLink(file, d) => file[d].version = 0
    BY DEF Stored, LinksOwned
  <2>. QED
    BY <1>1, <2>1, <2>2, <2>3 DEF LinksOwned, IsLink, Training
<1>14. Trainings'
  <2>1. ASSUME NEW d \in Clones, NEW j, j = job'[d], j.pc # "off"
        PROVE  j.shape \in Shapes /\ Holds(d, j)'
    <3>1. d # c /\ j.shape \in Shapes /\ Holds(d, j)
      BY <1>5, <1>6, <2>1 DEF Stored, Trainings, Training
    <3>2. torn' = torn /\ adam'[d] = adam[d] /\ file'[d] = file[d]
      BY <1>1, <1>6, <3>1
    <3>. QED
      BY <3>1, <3>2, HoldsStay
  <2>. QED
    BY <2>1, NextTrainings
<1>15. Reserve'
  <2>1. \A d \in Clones : job'[d].pc \in Waits => job[d].pc \in Waits
    BY <1>5, <1>6 DEF Waits
  <2>. QED
    BY <1>1, <2>1, ReserveKept DEF Stored
<1>. QED
  BY <1>8, <1>9, <1>10, <1>11, <1>12, <1>13, <1>14, <1>15 DEF Stored, Inv

(* A step that asks a training to stop, that writes the header or the        *)
(* tokenizer of an export, or that does nothing.                             *)
LEMMA FilesStay ==
  ASSUME Stored, stopping' \subseteq Clones, tokens' \subseteq Names,
         config' \in [Ids -> Shapes \cup {None}], \A c \in Clones : config'[c] = config[c],
         version' \in 0..MaxVersion, Reserve',
         UNCHANGED <<parent, tokRef, file, adam, job, fresh, torn, renamed>>
  PROVE  Stored'
<1>1. TypeOK /\ UNCHANGED <<parent, tokRef, file, adam, job, fresh, torn, renamed>>
  BY DEF Stored, Inv
<1>2. TypeOK'
  BY <1>1 DEF TypeOK
<1>3. TrainedVariantExists' /\ PairedOptimum'
  BY <1>1 DEF Stored, Inv, TrainedVariantExists, Training, PairedOptimum, At
<1>6. NeverMade'
  <2>1. fresh \subseteq Clones
    BY <1>1 DEF TypeOK
  <2>. QED
    BY <1>1, <2>1 DEF Stored, NeverMade
<1>7. LinksOwned'
  BY <1>1 DEF Stored, LinksOwned, IsLink, Training
<1>4. LinksResolve'
  <2>1. PICK g : g = file'
    OBVIOUS
  <2>2. ~renamed' => \A d \in Clones : IsLink(g, d) => Exists(g, d)
    BY <1>1, <2>1 DEF Stored, Inv, LinksResolve
  <2>. QED
    BY <2>1, <2>2, NextLinks
<1>5. Trainings'
  <2>1. ASSUME NEW d \in Clones, NEW j, j = job'[d], j.pc # "off"
        PROVE  j.shape \in Shapes /\ Holds(d, j)'
    <3>1. j.shape \in Shapes /\ Holds(d, j)
      BY <1>1, <2>1 DEF Stored, Trainings, Training
    <3>2. torn' = torn /\ adam'[d] = adam[d] /\ file'[d] = file[d]
      BY <1>1
    <3>. QED
      BY <3>1, <3>2, HoldsStay
  <2>. QED
    BY <2>1, NextTrainings
<1>. QED
  BY <1>2, <1>3, <1>4, <1>5, <1>6, <1>7 DEF Stored, Inv

(* A training is asked to stop. *)
LEMMA StopKeeps ==
  ASSUME Stored, stopping' \subseteq Clones, UNCHANGED <<meta, files, job, fresh, version, torn, renamed>>
  PROVE  Stored'
<1>1. /\ TypeOK /\ Reserve
      /\ UNCHANGED <<config, parent, tokRef, file, adam, tokens, job, fresh, version, torn, renamed>>
  BY DEF Stored, Inv, meta, files
<1>2. Reserve'
  BY <1>1, ReserveKept
<1>. QED
  BY <1>1, <1>2, FilesStay DEF TypeOK

-----------------------------------------------------------------------------
(* A pipeline run exports a checkpoint.                                      *)

(* The header is written. *)
LEMMA ExportHeaderKeeps ==
  ASSUME Stored, scene.versions \in 0..MaxVersion, NEW n \in Names, NEW s \in Shapes, ExportHeader(n, s)
  PROVE  Stored'
<1>1. /\ Spare /\ NewVersion /\ config' = [config EXCEPT ![n] = s]
      /\ UNCHANGED <<parent, tokRef, file, adam, tokens, job, stopping, fresh, torn, renamed>>
  BY DEF ExportHeader, files, past
<1>2. TypeOK /\ n \in Ids /\ n \notin Clones /\ Clones \subseteq Ids
  BY LibraryAssumption DEF Stored, Inv, Ids
<1>3. Reserve' /\ version' \in 0..MaxVersion
  BY <1>1, <1>2, SpareUsed
<1>4. config' \in [Ids -> Shapes \cup {None}] /\ \A c \in Clones : config'[c] = config[c]
  BY <1>1, <1>2 DEF TypeOK
<1>5. tokens' \subseteq Names /\ stopping' \subseteq Clones
  BY <1>1, <1>2 DEF TypeOK
<1>. QED
  BY <1>1, <1>3, <1>4, <1>5, FilesStay

(* The weights are written, or half of them. *)
LEMMA ExportWritten ==
  ASSUME Stored, NEW n \in Names, NEW b \in Files, b.link = None, b.version # 0,
         file' = [file EXCEPT ![n] = b], UNCHANGED <<meta, adam, tokens, job, stopping, fresh, version, past>>
  PROVE  Stored'
<1>1. /\ TypeOK /\ Reserve /\ n \in Ids /\ n \notin fresh /\ {n} \cap Clones = {}
      /\ UNCHANGED <<config, parent, tokRef, adam, tokens, job, stopping, fresh, version, torn, renamed>>
  BY LibraryAssumption DEF Stored, Inv, Ids, TypeOK, meta, past
<1>2. Reserve' /\ version' \in 0..MaxVersion
  BY <1>1, ReserveKept DEF TypeOK
<1>3. PICK s \in Shapes \cup {None} : s = config[n]
  BY <1>1 DEF TypeOK
<1>4. config' = [config EXCEPT ![n] = s] /\ torn' = torn \cup ({n} \cap Clones)
  BY <1>1, <1>3 DEF TypeOK
<1>. QED
  BY <1>1, <1>2, <1>4, Written

(* The other awaits of an export. *)
LEMMA ExportKeeps ==
  ASSUME Stored, Exporting, ExportWeights \/ ExportTokenizer \/ ExportThrows
  PROVE  Stored'
<1>1. export.pc # "off" /\ export.name \in Names /\ export.out \in Files
      /\ export.out.link = None /\ export.out.version # 0
  BY DEF Exporting, ExportWeights, ExportTokenizer, ExportThrows
<1>2. TypeOK /\ Reserve
  BY DEF Stored, Inv
<1>3. CASE ExportWeights
  BY <1>1, <1>3, ExportWritten DEF ExportWeights
<1>4. ASSUME tokens' \subseteq Names, UNCHANGED <<meta, file, adam, job, stopping, fresh, version, past>>
      PROVE  Stored'
  <2>1. UNCHANGED <<config, parent, tokRef, file, adam, job, stopping, fresh, version, torn, renamed>>
    BY <1>4 DEF meta, past
  <2>2. Reserve'
    BY <1>2, <2>1, ReserveKept
  <2>. QED
    BY <1>2, <1>4, <2>1, <2>2, FilesStay DEF TypeOK
<1>5. CASE ExportTokenizer
  <2>1. tokens' \subseteq Names
    BY <1>1, <1>2, <1>5 DEF ExportTokenizer, TypeOK
  <2>. QED
    BY <1>4, <1>5, <2>1 DEF ExportTokenizer
<1>6. CASE ExportThrows
  <2>1. PICK b \in Files : b = HalfWritten /\ b.link = None /\ b.version # 0
    <3>1. export.out.version \in 0..MaxVersion
      BY <1>1 DEF Files
    <3>. QED
      BY <1>1, <3>1, FileIs DEF HalfWritten
  <2>2. CASE export.pc = "weights"
    <3>1. file' = [file EXCEPT ![export.name] = b]
      BY <1>6, <2>1, <2>2 DEF ExportThrows
    <3>. QED
      BY <1>1, <1>6, <2>1, <3>1, ExportWritten DEF ExportThrows
  <2>3. CASE export.pc # "weights"
    <3>1. tokens' \subseteq Names /\ UNCHANGED file
      BY <1>2, <1>6, <2>3 DEF ExportThrows, TypeOK
    <3>. QED
      BY <1>4, <1>6, <3>1 DEF ExportThrows
  <2>. QED
    BY <2>2, <2>3
<1>. QED
  BY <1>3, <1>5, <1>6

(* An export has a name and weights; nothing else starts or ends one. *)
LEMMA ExportingStep == ASSUME Stored, Exporting, [Next]_vars PROVE Exporting'
<1>1. ASSUME NEW n \in scene.names, NEW s \in scene.shapes, ExportHeader(n, s) PROVE Exporting'
  <2>1. n \in Names /\ s \in Shapes /\ scene' = scene /\ scene.versions \in 0..MaxVersion
    BY <1>1, LibraryAssumption DEF Exporting, ExportHeader, past
  <2>2. n # None /\ TypeOK /\ Spare /\ NewVersion /\ UNCHANGED job
    BY <1>1, <2>1, LibraryAssumption DEF Stored, Inv, ExportHeader, Ids
  <2>3. version' \in 0..MaxVersion /\ version' # 0
    BY <2>1, <2>2, SpareUsed
  <2>4. PICK b \in Files : b = Bytes(s, version') /\ b.link = None /\ b.version # 0
    BY <2>1, <2>3, FileIs
  <2>5. PICK t \in BOOLEAN : export' = [pc |-> "weights", name |-> n, out |-> b, tok |-> t]
    <3>1. ("tokenizer" \in scene.ops) \in BOOLEAN
      BY SMT
    <3>2. export' = [pc |-> "weights", name |-> n, out |-> b, tok |-> "tokenizer" \in scene.ops]
      BY <1>1, <2>4, Zenon DEF ExportHeader
    <3>. QED
      BY <3>1, <3>2, Zenon
  <2>6. /\ export' \in [pc : {"off", "weights", "tokenizer"}, name : Names \cup {None},
                        out : Files, tok : BOOLEAN]
        /\ export'.name = n /\ export'.out = b
    BY <2>1, <2>5
  <2>. QED
    BY <2>1, <2>2, <2>4, <2>6 DEF Exporting
<1>2. ASSUME export' = NoExport \/ export' = [export EXCEPT !.pc = "tokenizer"], export.pc # "off",
             UNCHANGED scene
      PROVE  Exporting'
  <2>1. /\ NoExport \in [pc : {"off", "weights", "tokenizer"}, name : Names \cup {None},
                         out : Files, tok : BOOLEAN]
        /\ NoExport.pc = "off"
    BY FileIs DEF NoExport
  <2>. QED
    BY <1>2, <2>1 DEF Exporting
<1>3. CASE ExportWeights \/ ExportTokenizer \/ ExportThrows
  BY <1>2, <1>3 DEF ExportWeights, ExportTokenizer, ExportThrows, past
<1>4. ASSUME UNCHANGED <<export, scene>> PROVE Exporting'
  BY <1>4 DEF Exporting
<1>5. CASE \E c \in Clones, s \in scene.shapes : Create(c, s) \/ \E i \in Ids : Clone(c, i, s)
  BY <1>4, <1>5 DEF Create, Clone, train, past
<1>6. CASE \E i \in Ids : Delete(i) \/ \E s \in scene.shapes : Accept(i, s)
  BY <1>4, <1>6 DEF Delete, Accept, train, past
<1>7. CASE \E n, m \in Names : Rename(n, m)
  BY <1>4, <1>7 DEF Rename, train
<1>8. ASSUME NEW c \in Clones, StartTrain(c) \/ Stop(c) \/ TrainThrows(c) PROVE Exporting'
  BY <1>4, <1>8 DEF StartTrain, Stop, TrainThrows, Finish, past
<1>9. ASSUME NEW c \in Clones, TrainStep(c) PROVE Exporting'
  BY <1>4, <1>9 DEF TrainStep, ReadData, ReadWeights, WeightsGone, ReadMoments, LoopEnds, SaveWeights,
                    SaveMoments, Go, Finish, past
<1>10. CASE UNCHANGED vars
  BY <1>4, <1>10 DEF vars, train, past
<1>. QED
  BY <1>1, <1>3, <1>5, <1>6, <1>7, <1>8, <1>9, <1>10 DEF Next

-----------------------------------------------------------------------------
(* The invariant, and what steps may never do.                               *)

(* The invariant holds at the start, *)
LEMMA InitInvariant == Init => IInv
<1>. SUFFICES ASSUME Init PROVE IInv
  OBVIOUS
<1>1. 0 \in 0..MaxVersion /\ None \in Shapes \cup {None}
  BY LibraryAssumption
<1>2. NoJob \in Jobs /\ NoJob.pc = "off"
  BY <1>1, FileIs, LibraryAssumption DEF NoJob, Jobs
<1>3. TypeOK
  BY <1>1, <1>2, FileIs DEF Init, TypeOK
<1>4. \A c \in Clones : c \in Ids /\ c # None
  BY LibraryAssumption DEF Ids
<1>5. \A c \in Clones : job[c].pc = "off" /\ adam[c] = NoFile
  BY <1>2 DEF Init
<1>6. \A i \in Ids : file[i] = NoFile /\ file[i].link = None /\ config[i] = None
  BY FileIs DEF Init
<1>7. TrainedVariantExists /\ LinksResolve /\ PairedOptimum
  BY <1>4, <1>5, <1>6 DEF TrainedVariantExists, LinksResolve, PairedOptimum, Training, IsLink
<1>8. NeverMade
  BY <1>4, <1>5, <1>6 DEF NeverMade, Init
<1>9. LinksOwned
  <2>1. \A n \in Names : n \in Ids
    BY DEF Ids
  <2>. QED
    BY <1>4, <1>5, <1>6, <2>1, FileIs DEF LinksOwned, IsLink, Training
<1>10. Trainings
  BY <1>5 DEF Trainings, Training
<1>11. Reserve
  <2>1. Pending = {}
    BY <1>5 DEF Pending
  <2>2. Cardinality(Pending) = 0
    BY <2>1, FS_EmptySet
  <2>. QED
    BY <2>2, LibraryAssumption DEF Reserve, Init
<1>12. Exporting
  BY FileIs DEF Exporting, NoExport, Init
<1>. QED
  BY <1>3, <1>7, <1>8, <1>9, <1>10, <1>11, <1>12 DEF IInv, Stored, Inv

(* Every step keeps the invariant. *)
LEMMA StepInvariant == ASSUME IInv, [Next]_vars PROVE IInv'
<1>. USE DEF IInv
<1>0. scene.versions \in 0..MaxVersion /\ scene.names \subseteq Names /\ scene.shapes \subseteq Shapes
  BY LibraryAssumption DEF Exporting
<1>1. ASSUME NEW n \in scene.names, NEW s \in scene.shapes, ExportHeader(n, s) PROVE Stored'
  BY <1>0, <1>1, ExportHeaderKeeps
<1>2. ASSUME NEW c \in Clones, NEW s \in scene.shapes, Create(c, s) PROVE Stored'
  BY <1>0, <1>2, CreateKeeps
<1>3. ASSUME NEW c \in Clones, NEW i \in Ids, NEW s \in scene.shapes, Clone(c, i, s) PROVE Stored'
  BY <1>0, <1>3, CloneKeeps
<1>4. ASSUME NEW i \in Ids, Delete(i) PROVE Stored'
  BY <1>4, DeleteKeeps
<1>5. ASSUME NEW i \in Ids, NEW s \in scene.shapes, Accept(i, s) PROVE Stored'
  BY <1>0, <1>5, AcceptKeeps
<1>6. ASSUME NEW n \in Names, NEW m \in Names, Rename(n, m) PROVE Stored'
  BY <1>6, RenameKeeps
<1>7. ASSUME NEW c \in Clones, StartTrain(c) PROVE Stored'
  BY <1>0, <1>7, StartTrainKeeps
<1>8. ASSUME NEW c \in Clones, Stop(c) PROVE Stored'
  BY <1>8, StopKeeps DEF Stop, past, Stored, Inv, TypeOK
<1>9. ASSUME NEW c \in Clones, TrainStep(c) PROVE Stored'
  BY <1>9, ReadDataKeeps, ReadWeightsKeeps, ReadMomentsKeeps, LoopEndsKeeps, SaveWeightsKeeps, SaveMomentsKeeps
  DEF TrainStep
<1>10. ASSUME NEW c \in Clones, TrainThrows(c) PROVE Stored'
  BY <1>10, TrainThrowsKeeps
<1>11. ASSUME ExportWeights \/ ExportTokenizer \/ ExportThrows PROVE Stored'
  BY <1>11, ExportKeeps
<1>12. ASSUME UNCHANGED vars PROVE Stored'
  BY <1>12, StopKeeps DEF vars, train, past, Stored, Inv, TypeOK
<1>13. Exporting'
  BY ExportingStep
<1>. QED
  BY <1>1, <1>2, <1>3, <1>4, <1>5, <1>6, <1>7, <1>8, <1>9, <1>10, <1>11, <1>12, <1>13 DEF Next

(* What is in the library, in training or linked to is there, and weights    *)
(* lie beside the optimizer state they were reached with, however many       *)
(* variants are cloned, trained and deleted at once (IInv of the runs).      *)
THEOREM Invariance == Spec => []IInv
<1>1. IInv /\ [Next]_vars => IInv'
  BY StepInvariant
<1>. QED
  BY <1>1, InitInvariant, PTL DEF Spec

(* Only a deletion takes something out of the library and puts nothing in.   *)
LEMMA OnlyDeleteRemoves ==
  ASSUME IInv, Next, NEW i \in Ids, Removed(i)
  PROVE  Delete(i)
<1>1. config \in [Ids -> Shapes \cup {None}] /\ None \notin Shapes /\ Clones \subseteq Ids /\ Names \subseteq Ids
  BY LibraryAssumption DEF IInv, Stored, Inv, TypeOK, Ids
<1>2. /\ config[i] # None /\ config'[i] = None
      /\ \A j \in Ids : config[j] = None => config'[j] = None
  BY DEF Removed
<1>3. ASSUME NEW k \in Ids, NEW s \in Shapes, config' = [config EXCEPT ![k] = s] PROVE FALSE
  BY <1>1, <1>2, <1>3
<1>0. scene.shapes \subseteq Shapes /\ scene.names \subseteq Ids
  BY <1>1, LibraryAssumption DEF IInv, Exporting
<1>4. ASSUME NEW n \in scene.names, NEW s \in scene.shapes, ExportHeader(n, s) PROVE FALSE
  BY <1>0, <1>3, <1>4 DEF ExportHeader
<1>5. ASSUME NEW c \in Clones, NEW s \in scene.shapes, Create(c, s) PROVE FALSE
  BY <1>0, <1>1, <1>3, <1>5 DEF Create
<1>6. ASSUME NEW c \in Clones, NEW k \in Ids, NEW s \in scene.shapes, Clone(c, k, s) PROVE FALSE
  BY <1>0, <1>1, <1>3, <1>6 DEF Clone
<1>7. ASSUME NEW k \in Ids, NEW s \in scene.shapes, Accept(k, s) PROVE FALSE
  BY <1>0, <1>3, <1>7 DEF Accept
<1>8. ASSUME NEW k \in Ids, Delete(k) PROVE k = i
  BY <1>1, <1>2, <1>8 DEF Delete
<1>9. ASSUME NEW n \in Names, NEW m \in Names, Rename(n, m) PROVE FALSE
  <2>1. /\ config[n] # None /\ n # m /\ config[m] = None
        /\ config' = [config EXCEPT ![m] = config[n], ![n] = None]
    BY <1>9 DEF Rename, Idle
  <2>. QED
    BY <1>1, <1>2, <2>1
<1>10. ASSUME NEW c \in Clones, SaveMoments(c) PROVE FALSE
  <2>1. job[c].shape \in Shapes
    BY <1>10, JobIs DEF IInv, SaveMoments, Training, At
  <2>2. config' = [config EXCEPT ![c] = job[c].shape]
    BY <1>10 DEF SaveMoments
  <2>. QED
    BY <1>1, <1>3, <2>1, <2>2
<1>11. ASSUME NEW c \in Clones, \/ StartTrain(c) \/ Stop(c) \/ ReadData(c) \/ ReadWeights(c) \/ ReadMoments(c)
                                \/ LoopEnds(c) \/ SaveWeights(c) \/ TrainThrows(c)
       PROVE  FALSE
  <2>1. UNCHANGED config
    BY <1>11 DEF StartTrain, Stop, ReadData, ReadWeights, ReadMoments, LoopEnds, SaveWeights, TrainThrows, meta
  <2>. QED
    BY <1>2, <2>1
<1>12. CASE ExportWeights \/ ExportTokenizer \/ ExportThrows
  BY <1>2, <1>12 DEF ExportWeights, ExportTokenizer, ExportThrows, meta
<1>. QED
  BY <1>4, <1>5, <1>6, <1>7, <1>8, <1>9, <1>10, <1>11, <1>12 DEF Next, TrainStep

(* Deleting a model changes what no variant reads, over chains of links of   *)
(* any length, until an export is renamed (what a rename breaks is the       *)
(* finding RenameKeepsWeights).                                              *)
THEOREM DeleteKeepsWeightsHolds == Spec => DeleteKeepsWeights
<1>1. ASSUME IInv, Next, ~renamed, NEW i \in Ids, Removed(i), NEW c \in Clones \ {i}, Exists(file, c)
      PROVE  Read(file', c) = Read(file, c)
  <2>1. Delete(i) /\ c \in Ids \ {i}
    BY <1>1, OnlyDeleteRemoves DEF Ids
  <2>2. PICK g : g = file'
    OBVIOUS
  <2>3. Read(g, c) = Read(file, c)
    BY <1>1, <2>1, <2>2, DeleteFiles DEF IInv
  <2>. QED
    BY <2>2, <2>3
<1>2. IInv /\ [Next]_vars => [~renamed => \A i \in Ids : Removed(i) =>
        \A c \in Clones \ {i} : Exists(file, c) => Read(file', c) = Read(file, c)]_vars
  BY <1>1
<1>. QED
  BY <1>2, Invariance, PTL DEF Spec, DeleteKeepsWeights
=============================================================================
