--------------------------- MODULE LightDBProofs ---------------------------
(***************************************************************************)
(* Proofs about LightDB, for any number of relayers and operators, any      *)
(* chains, heights and deletions.                                           *)
(***************************************************************************)
EXTENDS LightDB, SharedLemmas

Sessions ==
    {Trusted(h) : h \in 0 .. MaxHeight} \cup {Update(h) : h \in 0 .. MaxHeight}
      \cup {LastHeight, ForceInit, WrongFlags} \cup {WithTrust(b) : b \in Blocks}

ProcType == [pc : {"idle", "open", "use", "fetched", "close"}, todo : Seq(Sessions),
             attempt : Nat, gen : 0 .. MaxGen, opened : Nat,
             fetched : 0 .. MaxHeight, header : Blocks \cup {NoBlock},
             shows : 0 .. MaxHeight, disturbed : BOOLEAN]

RootType == [block : Blocks \cup {NoBlock}, opened : Nat]

TypeInv ==
    /\ height \in Heights /\ node \in Chains
    /\ dir \in 0 .. MaxGen /\ gens \in 0 .. MaxGen /\ deletes \in Nat
    /\ lock \in [Gens -> Procs \cup {NoProc}]
    /\ store \in [Gens -> SUBSET Blocks]
    /\ root \in [Gens -> RootType]
    /\ proc \in [Procs -> ProcType]

\* A process with the record r is in a session.
In(r) == r.pc \in {"use", "fetched", "close"}

\* A session to come or under way has something to do and has returned nothing.
UseOK(r) ==
    /\ r.pc \in {"open", "use"} => r.todo # << >>
    /\ r.pc \in {"idle", "open", "use", "fetched"} => r.header = NoBlock
    /\ r.pc = "fetched" => r.fetched \in Heights

\* Where "light header 0" is once it has read the last trusted height.
ShowsOK(r) ==
    /\ r.pc = "idle" => r.shows = 0
    /\ r.shows # 0 =>
          /\ r.pc \in {"open", "use"} => r.todo = << Trusted(r.shows) >>
          /\ r.pc # "fetched"
          /\ r.pc = "close" =>
                \/ r.todo = << >>
                \/ r.todo = << Trusted(r.shows) >>
                \/ r.todo = << LastHeight, Trusted(r.shows) >>

ProcInv == \A p \in Procs : UseOK(proc[p]) /\ ShowsOK(proc[p])

\* Sessions are in generations that were created; the others are empty.
GenInv ==
    /\ dir <= gens
    /\ \A p \in Procs : In(proc[p]) => proc[p].gen \in 1 .. gens
    /\ \A g \in Gens : g > gens => store[g] = {}

\* What is saved in the directory on disk rests on a root of trust that is not
\* older than the last deletion, and what a session sees on one that is not
\* older than its opening.
ReinitInv ==
    /\ dir # 0 /\ store[dir] # {} => root[dir].opened >= deletes
    /\ \A p \in Procs : In(proc[p]) =>
          /\ proc[p].gen = dir => proc[p].opened = deletes
          /\ store[proc[p].gen] # {} => root[proc[p].gen].opened >= proc[p].opened

\* All blocks of a store are on the chain of its root of trust.
RootInv ==
    /\ \A g \in Gens : \A b \in store[g] : b.chain = root[g].block.chain
    /\ \A p \in Procs : In(proc[p]) =>
          \/ proc[p].header = NoBlock
          \/ proc[p].header.chain = root[proc[p].gen].block.chain

\* The generation a command works in, or will open next.
GenOf(r) == IF In(r) THEN r.gen ELSE dir

\* Without a deletion and a new root of trust since, the block that "light header
\* 0" shows is in the directory on disk.
ZeroInv ==
    \A p \in Procs : ~proc[p].disturbed =>
        /\ In(proc[p]) => proc[p].gen = dir
        /\ proc[p].shows # 0 => /\ GenOf(proc[p]) # 0
                                /\ \E b \in store[GenOf(proc[p])] : b.height = proc[p].shows

IInv == TypeInv /\ LockDiscipline /\ ProcInv /\ GenInv /\ ReinitInv /\ RootInv /\ ZeroInv

-----------------------------------------------------------------------------
LEMMA InitInv == Init => IInv
  <1> SUFFICES ASSUME Init PROVE IInv
    OBVIOUS
  <1> USE DEF Init
  <1>1. MaxHeight \in Nat \ {0} /\ MaxGen \in Nat \ {0} /\ NoProc \notin Procs
    BY LightDBAssumption
  <1>2. << >> \in Seq(Sessions)
    BY EmptySeq
  <1>3. Idle \in ProcType
    BY <1>1, <1>2 DEF Idle, ProcType
  <1>4. NoRoot \in RootType
    BY DEF NoRoot, RootType
  <1>5. TypeInv
    BY <1>1, <1>3, <1>4 DEF TypeInv, Heights
  <1>6. \A p \in Procs : proc[p] = Idle
    OBVIOUS
  <1>7. LockDiscipline
    BY <1>1, <1>6 DEF LockDiscipline, InSession, Idle
  <1>8. ProcInv
    BY <1>6 DEF ProcInv, UseOK, ShowsOK, Idle
  <1>9. GenInv
    BY <1>6 DEF GenInv, In, Idle
  <1>10. ReinitInv
    BY <1>6 DEF ReinitInv, In, Idle
  <1>11. RootInv
    BY <1>6 DEF RootInv, In, Idle
  <1>12. ZeroInv
    BY <1>6 DEF ZeroInv, In, Idle
  <1> QED BY <1>5, <1>7, <1>8, <1>9, <1>10, <1>11, <1>12 DEF IInv

\* One process at a time is in a session of a generation.
LEMMA SessionsApart ==
    ASSUME IInv, NEW p \in Procs, NEW q \in Procs, In(proc[p]), In(proc[q]),
           proc[p].gen = proc[q].gen
    PROVE  p = q
  <1>1. proc[p].gen \in Gens
    BY LightDBAssumption DEF IInv, GenInv, TypeInv, Gens
  <1>2. lock[proc[p].gen] = p /\ lock[proc[p].gen] = q
    BY <1>1 DEF IInv, LockDiscipline, InSession, In
  <1> QED BY <1>2

\* A step within a session: the process stays in its generation, may add blocks
\* that are on the chain of the root to a store that is not empty, and may
\* return such a block.
LEMMA WithinSession ==
    ASSUME IInv, NEW p \in Procs, In(proc[p]), NEW r \in ProcType, In(r),
           proc' = [proc EXCEPT ![p] = r],
           UNCHANGED << height, node, dir, gens, lock, root, deletes >>,
           r.gen = proc[p].gen, r.opened = proc[p].opened,
           r.disturbed = proc[p].disturbed,
           UseOK(r), ShowsOK(r),
           store' \in [Gens -> SUBSET Blocks],
           \A g \in Gens : store[g] \subseteq store'[g],
           \A g \in Gens : g # r.gen \/ store[g] = {} => store'[g] = store[g],
           \A b \in store'[r.gen] : b.chain = root[r.gen].block.chain,
           r.header = NoBlock \/ r.header.chain = root[r.gen].block.chain,
           r.shows # 0 => \/ r.shows = proc[p].shows
                          \/ \E b \in store[r.gen] : b.height = r.shows
    PROVE  IInv'
  <1>1. /\ proc \in [Procs -> ProcType] /\ proc'[p] = r
        /\ \A q \in Procs \ {p} : proc'[q] = proc[q]
        /\ proc' \in [Procs -> ProcType]
    BY DEF IInv, TypeInv
  <1>2. TypeInv'
    BY <1>1 DEF IInv, TypeInv
  <1>3. \A q \in Procs : /\ In(proc'[q]) <=> In(proc[q])
                         /\ proc'[q].gen = proc[q].gen
                         /\ proc'[q].opened = proc[q].opened
                         /\ proc'[q].disturbed = proc[q].disturbed
    BY <1>1
  <1>4. LockDiscipline'
    BY <1>3 DEF IInv, LockDiscipline, InSession, In
  <1>5. ProcInv'
    BY <1>1 DEF IInv, ProcInv
  <1>6. r.gen \in Gens /\ r.gen \in 1 .. gens
    BY LightDBAssumption DEF IInv, GenInv, TypeInv, Gens
  <1>7. GenInv'
    BY <1>3 DEF IInv, GenInv, In
  <1>8. \A g \in Gens : store'[g] # {} <=> store[g] # {}
    OBVIOUS
  <1>9. dir # 0 => dir \in Gens
    BY LightDBAssumption DEF IInv, TypeInv, Gens
  <1>10. \A q \in Procs : In(proc[q]) => proc[q].gen \in Gens
    BY LightDBAssumption DEF IInv, GenInv, TypeInv, Gens
  <1>11. ReinitInv'
    BY <1>3, <1>8, <1>9, <1>10 DEF IInv, ReinitInv, In
  <1>12. RootInv'
    <2>1. \A g \in Gens : \A b \in store'[g] : b.chain = root[g].block.chain
      BY DEF IInv, RootInv
    <2> QED BY <1>1, <2>1 DEF IInv, RootInv, In
  <1>13. ASSUME NEW q \in Procs, ~proc'[q].disturbed
         PROVE  /\ In(proc'[q]) => proc'[q].gen = dir
                /\ proc'[q].shows # 0 =>
                      /\ GenOf(proc[q]) # 0
                      /\ \E b \in store'[GenOf(proc[q])] : b.height = proc'[q].shows
    <2>1. ~proc[q].disturbed
      BY <1>3, <1>13
    <2>2. /\ In(proc[q]) => proc[q].gen = dir
          /\ proc[q].shows # 0 => /\ GenOf(proc[q]) # 0
                                  /\ \E b \in store[GenOf(proc[q])] : b.height = proc[q].shows
      BY <2>1 DEF IInv, ZeroInv
    <2>3. GenOf(proc[q]) # 0 => GenOf(proc[q]) \in Gens
      BY <1>9, <1>10 DEF GenOf
    <2>4. CASE q # p
      BY <1>1, <1>3, <2>2, <2>3, <2>4
    <2>5. CASE q = p
      <3>1. GenOf(proc[p]) = r.gen /\ r.gen # 0
        BY <1>6, LightDBAssumption DEF GenOf, Gens
      <3> QED BY <1>1, <1>3, <1>6, <2>2, <2>3, <2>5, <3>1
    <2> QED BY <2>4, <2>5
  <1>14. ZeroInv'
    <2>1. \A q \in Procs : GenOf(proc[q])' = GenOf(proc[q])
      BY <1>3 DEF GenOf, In
    <2> QED BY <1>13, <2>1 DEF ZeroInv, In, GenOf
  <1> QED BY <1>2, <1>4, <1>5, <1>7, <1>11, <1>12, <1>14 DEF IInv

\* A step after which the process is in no session: a command starts, waits for
\* the database, ends or goes on, or is killed.
LEMMA OutOfSession ==
    ASSUME IInv, NEW p \in Procs, NEW r \in ProcType, ~In(r),
           proc' = [proc EXCEPT ![p] = r],
           lock' = [g \in Gens |-> IF lock[g] = p THEN NoProc ELSE lock[g]],
           UNCHANGED << height, node, dir, gens, store, root, deletes >>,
           UseOK(r), ShowsOK(r),
           r.shows = 0 \/ (r.shows = proc[p].shows /\ r.disturbed = proc[p].disturbed)
    PROVE  IInv'
  <1>1. /\ proc \in [Procs -> ProcType] /\ proc'[p] = r
        /\ \A q \in Procs \ {p} : proc'[q] = proc[q]
        /\ proc' \in [Procs -> ProcType]
    BY DEF IInv, TypeInv
  <1>2. lock' \in [Gens -> Procs \cup {NoProc}]
    BY DEF IInv, TypeInv
  <1>3. TypeInv'
    BY <1>1, <1>2 DEF IInv, TypeInv
  <1>4. LockDiscipline'
    <2> SUFFICES ASSUME NEW g \in Gens, NEW q \in Procs
                 PROVE  lock'[g] = q <=> In(proc'[q]) /\ proc'[q].gen = g
      BY DEF LockDiscipline, InSession, In
    <2>1. lock[g] = q <=> In(proc[q]) /\ proc[q].gen = g
      BY DEF IInv, LockDiscipline, InSession, In
    <2>2. lock'[g] = IF lock[g] = p THEN NoProc ELSE lock[g]
      OBVIOUS
    <2>3. CASE q = p
      BY <1>1, <2>2, <2>3, LightDBAssumption
    <2>4. CASE q # p
      BY <1>1, <2>1, <2>2, <2>4, LightDBAssumption
    <2> QED BY <2>3, <2>4
  <1>5. ProcInv'
    BY <1>1 DEF IInv, ProcInv
  <1>6. GenInv'
    BY <1>1 DEF IInv, GenInv, In
  <1>7. ReinitInv'
    BY <1>1 DEF IInv, ReinitInv, In
  <1>8. RootInv'
    BY <1>1 DEF IInv, RootInv, In
  <1>9. ASSUME NEW q \in Procs, ~proc'[q].disturbed
        PROVE  /\ In(proc'[q]) => proc'[q].gen = dir
               /\ proc'[q].shows # 0 =>
                     /\ GenOf(proc'[q]) # 0
                     /\ \E b \in store[GenOf(proc'[q])] : b.height = proc'[q].shows
    <2>1. CASE q # p
      BY <1>1, <1>9, <2>1 DEF IInv, ZeroInv
    <2>2. CASE q = p /\ r.shows # 0
      <3>1. ~proc[p].disturbed /\ proc[p].shows # 0
        BY <1>1, <1>9, <2>2
      <3>2. /\ In(proc[p]) => proc[p].gen = dir
            /\ GenOf(proc[p]) # 0
            /\ \E b \in store[GenOf(proc[p])] : b.height = proc[p].shows
        BY <3>1 DEF IInv, ZeroInv
      <3>3. GenOf(proc[p]) = dir /\ GenOf(r) = dir
        BY <3>2 DEF GenOf
      <3> QED BY <1>1, <2>2, <3>2, <3>3
    <2>3. CASE q = p /\ r.shows = 0
      BY <1>1, <2>3
    <2> QED BY <2>1, <2>2, <2>3
  <1>10. ZeroInv'
    BY <1>9 DEF ZeroInv, GenOf, In
  <1> QED BY <1>3, <1>4, <1>5, <1>6, <1>7, <1>8, <1>10 DEF IInv

\* NewLightDB: the directory is opened, or created and opened.
LEMMA IntoSession ==
    ASSUME IInv, NEW p \in Procs, proc[p].pc = "open", NEW g \in Gens,
           proc' = [proc EXCEPT ![p] = Opened(p, g)],
           lock[g] = NoProc, lock' = [lock EXCEPT ![g] = p], dir' = g,
           \/ dir = g /\ gens' = gens
           \/ dir = 0 /\ g = gens + 1 /\ gens' = g,
           UNCHANGED << height, node, store, root, deletes >>
    PROVE  IInv'
  <1>1. proc \in [Procs -> ProcType] /\ proc[p] \in ProcType
    BY DEF IInv, TypeInv
  <1>2. PICK r : r = Opened(p, g)
    OBVIOUS
  <1>3. /\ r \in ProcType /\ r.pc = "use" /\ r.gen = g /\ r.opened = deletes
        /\ r.todo = proc[p].todo /\ r.header = proc[p].header /\ r.shows = proc[p].shows
        /\ r.disturbed = proc[p].disturbed
    <2>1. g \in 0 .. MaxGen /\ deletes \in Nat
      BY LightDBAssumption DEF IInv, TypeInv, Gens
    <2> QED BY <1>1, <1>2, <2>1 DEF Opened, ProcType
  <1>4. /\ proc'[p] = r /\ In(r)
        /\ \A q \in Procs \ {p} : proc'[q] = proc[q]
        /\ proc' \in [Procs -> ProcType]
    BY <1>1, <1>2, <1>3 DEF In
  <1>5. gens \in Nat /\ g \in 0 .. MaxGen /\ gens' \in 0 .. MaxGen /\ dir' <= gens' /\ gens <= gens'
    BY LightDBAssumption DEF IInv, TypeInv, Gens, GenInv
  <1>6. lock' \in [Gens -> Procs \cup {NoProc}]
    BY DEF IInv, TypeInv
  <1>7. TypeInv'
    BY <1>4, <1>5, <1>6 DEF IInv, TypeInv
  <1>8. LockDiscipline'
    <2> SUFFICES ASSUME NEW h \in Gens, NEW q \in Procs
                 PROVE  lock'[h] = q <=> In(proc'[q]) /\ proc'[q].gen = h
      BY DEF LockDiscipline, InSession, In
    <2>1. lock[h] = q <=> In(proc[q]) /\ proc[q].gen = h
      BY DEF IInv, LockDiscipline, InSession, In
    <2>2. lock'[h] = IF h = g THEN p ELSE lock[h]
      BY DEF IInv, TypeInv
    <2>3. ~In(proc[p])
      BY DEF In
    <2>4. CASE q = p
      BY <1>3, <1>4, <2>1, <2>2, <2>3, <2>4
    <2>5. CASE q # p
      BY <1>4, <2>1, <2>2, <2>5, LightDBAssumption
    <2> QED BY <2>4, <2>5
  <1>9. ProcInv'
    <2>1. UseOK(proc[p]) /\ ShowsOK(proc[p])
      BY DEF IInv, ProcInv
    <2>2. UseOK(r) /\ ShowsOK(r)
      BY <1>3, <2>1 DEF UseOK, ShowsOK
    <2> QED BY <1>4, <2>2 DEF IInv, ProcInv
  <1>10. GenInv'
    <2>1. \A q \in Procs : In(proc'[q]) => proc'[q].gen \in 1 .. gens'
      BY <1>3, <1>4, <1>5, LightDBAssumption DEF IInv, GenInv, Gens
    <2>2. \A h \in Gens : h > gens' => store[h] = {}
      BY <1>5, LightDBAssumption DEF IInv, GenInv, Gens
    <2> QED BY <1>5, <2>1, <2>2 DEF GenInv, In
  <1>11. store[g] # {} => dir = g /\ root[g].opened >= deletes
    <2>1. CASE dir = g
      <3>1. g # 0 BY LightDBAssumption DEF Gens
      <3> QED BY <2>1, <3>1 DEF IInv, ReinitInv
    <2>2. CASE dir = 0 /\ g = gens + 1
      BY <1>5, <2>2 DEF IInv, GenInv
    <2> QED BY <2>1, <2>2
  <1>12. \A q \in Procs \ {p} : In(proc[q]) => proc[q].gen # g
    BY LightDBAssumption DEF IInv, LockDiscipline, InSession, In
  <1>13. ReinitInv'
    <2>1. \A q \in Procs : In(proc'[q]) =>
             /\ proc'[q].gen = g => proc'[q].opened = deletes
             /\ store[proc'[q].gen] # {} => root[proc'[q].gen].opened >= proc'[q].opened
      BY <1>3, <1>4, <1>11, <1>12 DEF IInv, ReinitInv
    <2> QED BY <1>11, <2>1 DEF ReinitInv, In
  <1>14. RootInv'
    <2>1. r.header = NoBlock
      BY <1>3 DEF IInv, ProcInv, UseOK
    <2> QED BY <1>4, <2>1 DEF IInv, RootInv, In
  <1>15. ASSUME NEW q \in Procs, ~proc'[q].disturbed
         PROVE  /\ In(proc'[q]) => proc'[q].gen = g
                /\ proc'[q].shows # 0 => \E b \in store[g] : b.height = proc'[q].shows
    <2>1. ~proc[q].disturbed /\ proc'[q].shows = proc[q].shows
      BY <1>3, <1>4, <1>15
    <2>2. /\ In(proc[q]) => proc[q].gen = dir
          /\ proc[q].shows # 0 => /\ GenOf(proc[q]) # 0
                                  /\ \E b \in store[GenOf(proc[q])] : b.height = proc[q].shows
      BY <2>1 DEF IInv, ZeroInv
    <2>3. GenOf(proc[q]) = dir
      BY <2>2 DEF GenOf
    <2>4. In(proc[q]) => proc[q].gen # 0
      BY <1>5 DEF IInv, GenInv
    <2> QED BY <1>3, <1>4, <2>1, <2>2, <2>3, <2>4
  <1>16. ZeroInv'
    <2>1. g # 0 BY LightDBAssumption DEF Gens
    <2>2. \A q \in Procs : (In(proc'[q]) => proc'[q].gen = g) => GenOf(proc[q])' = g
      BY DEF GenOf, In
    <2> QED BY <1>15, <2>1, <2>2 DEF ZeroInv, In
  <1> QED BY <1>7, <1>8, <1>9, <1>10, <1>13, <1>14, <1>16 DEF IInv

\* Disturb marks the commands that run and changes nothing else.
LEMMA Disturbed ==
    ASSUME NEW ps \in [Procs -> ProcType], NEW q \in Procs
    PROVE  /\ Disturb(ps) \in [Procs -> ProcType]
           /\ Disturb(ps)[q].pc = ps[q].pc /\ Disturb(ps)[q].todo = ps[q].todo
           /\ Disturb(ps)[q].gen = ps[q].gen /\ Disturb(ps)[q].opened = ps[q].opened
           /\ Disturb(ps)[q].header = ps[q].header /\ Disturb(ps)[q].shows = ps[q].shows
           /\ Disturb(ps)[q].fetched = ps[q].fetched
           /\ ~Disturb(ps)[q].disturbed => ps[q].pc = "idle"
  <1> DEFINE d(e) == [ps[e] EXCEPT !.disturbed = ps[e].pc # "idle"]
  <1>1. ASSUME NEW e \in Procs
        PROVE  /\ d(e) \in ProcType
               /\ d(e).pc = ps[e].pc /\ d(e).todo = ps[e].todo
               /\ d(e).gen = ps[e].gen /\ d(e).opened = ps[e].opened
               /\ d(e).header = ps[e].header /\ d(e).shows = ps[e].shows
               /\ d(e).fetched = ps[e].fetched
               /\ ~d(e).disturbed => ps[e].pc = "idle"
    <2>1. ps[e] \in ProcType
      OBVIOUS
    <2>2. PICK r : r = d(e)
      OBVIOUS
    <2>3. PICK x \in BOOLEAN : x = (ps[e].pc # "idle")
      OBVIOUS
    <2>4. r = [ps[e] EXCEPT !.disturbed = x]
      BY <2>2, <2>3
    <2>5. /\ r \in ProcType
          /\ r.pc = ps[e].pc /\ r.todo = ps[e].todo
          /\ r.gen = ps[e].gen /\ r.opened = ps[e].opened
          /\ r.header = ps[e].header /\ r.shows = ps[e].shows
          /\ r.fetched = ps[e].fetched
          /\ r.disturbed = x
      BY <2>1, <2>4 DEF ProcType
    <2> QED BY <2>2, <2>3, <2>5
  <1>2. Disturb(ps) = [e \in Procs |-> d(e)]
    BY DEF Disturb
  <1> HIDE DEF d
  <1> QED BY <1>1, <1>2

LEMMA DeleteInv ==
    ASSUME IInv, NEW p \in Procs, DeleteLightDB(p)
    PROVE  IInv'
  <1>1. /\ dir' = 0 /\ deletes' = deletes + 1 /\ proc' = Disturb(proc)
        /\ UNCHANGED << height, node, gens, lock, store, root >>
    BY DEF DeleteLightDB, RemoveAll
  <1>2. proc \in [Procs -> ProcType]
    BY DEF IInv, TypeInv
  <1>3. ASSUME NEW q \in Procs
        PROVE  /\ proc'[q].pc = proc[q].pc /\ proc'[q].todo = proc[q].todo
               /\ proc'[q].gen = proc[q].gen /\ proc'[q].opened = proc[q].opened
               /\ proc'[q].header = proc[q].header /\ proc'[q].shows = proc[q].shows
               /\ proc'[q].fetched = proc[q].fetched
               /\ ~proc'[q].disturbed => proc[q].pc = "idle"
    BY <1>1, <1>2, Disturbed
  <1>4. TypeInv'
    <2>1. proc' \in [Procs -> ProcType]
      BY <1>1, <1>2, Disturbed
    <2>2. 0 \in 0 .. MaxGen /\ deletes' \in Nat
      BY <1>1, LightDBAssumption DEF IInv, TypeInv
    <2> QED BY <1>1, <2>1, <2>2 DEF IInv, TypeInv
  <1>5. LockDiscipline'
    BY <1>1, <1>3 DEF IInv, LockDiscipline, InSession
  <1>6. ProcInv'
    BY <1>3 DEF IInv, ProcInv, UseOK, ShowsOK
  <1>7. \A q \in Procs : /\ In(proc'[q]) <=> In(proc[q])
                         /\ In(proc[q]) => proc[q].gen # 0
    <2>1. gens \in Nat BY DEF IInv, TypeInv
    <2> QED BY <1>3, <2>1 DEF IInv, GenInv, In
  <1>8. GenInv'
    <2>1. 0 <= gens BY DEF IInv, TypeInv
    <2> QED BY <1>1, <1>3, <1>7, <2>1 DEF IInv, GenInv, In
  <1>9. ReinitInv'
    BY <1>1, <1>3, <1>7 DEF IInv, ReinitInv, In
  <1>10. RootInv'
    BY <1>1, <1>3, <1>7 DEF IInv, RootInv, In
  <1>11. ZeroInv'
    BY <1>3 DEF IInv, ProcInv, ShowsOK, ZeroInv, In
  <1> QED BY <1>4, <1>5, <1>6, <1>8, <1>9, <1>10, <1>11 DEF IInv

\* A new root of trust b, from which the operator meant the same.
LEMMA NewClientInv ==
    ASSUME IInv, NEW p \in Procs, proc[p].pc \in {"use", "fetched"}, NEW b \in Blocks,
           NewClient(p, b, b)
    PROVE  IInv'
  <1> DEFINE g == proc[p].gen
             ps == [proc EXCEPT ![p].pc = "close"]
  <1>1. PICK k \in SUBSET {s \in store[g] : s.height <= b.height /\ s.chain = b.chain} :
           store' = [store EXCEPT ![g] = k \cup {b}]
    BY DEF NewClient, Saved
  <1>2. /\ root' = [root EXCEPT ![g] = [block |-> b, opened |-> proc[p].opened]]
        /\ proc' = Disturb(ps)
        /\ UNCHANGED << height, node, dir, gens, lock, deletes >>
    BY DEF NewClient
  <1>3. proc \in [Procs -> ProcType] /\ proc[p] \in ProcType
    BY DEF IInv, TypeInv
  <1>4. PICK r : r = [proc[p] EXCEPT !.pc = "close"]
    OBVIOUS
  <1>5. /\ r \in ProcType /\ r.pc = "close" /\ r.todo = proc[p].todo
        /\ r.gen = proc[p].gen /\ r.opened = proc[p].opened
        /\ r.header = proc[p].header /\ r.shows = proc[p].shows
        /\ r.fetched = proc[p].fetched
    BY <1>3, <1>4 DEF ProcType
  <1>6. /\ ps \in [Procs -> ProcType] /\ ps[p] = r
        /\ \A q \in Procs \ {p} : ps[q] = proc[q]
    BY <1>3, <1>4, <1>5
  <1> HIDE DEF ps
  <1>7. ASSUME NEW q \in Procs
        PROVE  /\ proc'[q].pc = ps[q].pc /\ proc'[q].todo = ps[q].todo
               /\ proc'[q].gen = ps[q].gen /\ proc'[q].opened = ps[q].opened
               /\ proc'[q].header = ps[q].header /\ proc'[q].shows = ps[q].shows
               /\ proc'[q].fetched = ps[q].fetched
               /\ ~proc'[q].disturbed => ps[q].pc = "idle"
    BY <1>2, <1>6, Disturbed
  <1>8. \A q \in Procs : /\ In(proc'[q]) <=> In(proc[q])
                         /\ proc'[q].gen = proc[q].gen
                         /\ proc'[q].opened = proc[q].opened
                         /\ proc'[q].header = proc[q].header
    BY <1>5, <1>6, <1>7 DEF In
  <1>9. \A q \in Procs : In(proc[q]) => proc[q].gen \in Gens
    BY LightDBAssumption DEF IInv, GenInv, TypeInv, Gens
  <1>10. g \in Gens /\ In(proc[p])
    BY <1>9 DEF In
  <1>11. /\ store' \in [Gens -> SUBSET Blocks] /\ store'[g] = k \cup {b}
         /\ \A h \in Gens \ {g} : store'[h] = store[h]
    BY <1>1, <1>10 DEF IInv, TypeInv
  <1>12. /\ root' \in [Gens -> RootType]
         /\ root'[g] = [block |-> b, opened |-> proc[p].opened]
         /\ \A h \in Gens \ {g} : root'[h] = root[h]
    <2>1. PICK n : n = [block |-> b, opened |-> proc[p].opened]
      OBVIOUS
    <2>2. n \in RootType
      BY <1>3, <2>1 DEF RootType, ProcType
    <2> QED BY <1>2, <1>10, <2>1, <2>2 DEF IInv, TypeInv
  <1>13. \A q \in Procs \ {p} : In(proc[q]) => proc[q].gen # g
    BY <1>10, SessionsApart
  <1> HIDE DEF g
  <1>14. TypeInv'
    <2>1. proc' \in [Procs -> ProcType]
      BY <1>2, <1>6, Disturbed
    <2> QED BY <1>2, <1>11, <1>12, <2>1 DEF IInv, TypeInv
  <1>15. LockDiscipline'
    BY <1>2, <1>8 DEF IInv, LockDiscipline, InSession, In
  <1>16. ProcInv'
    <2>1. UseOK(proc[p]) /\ ShowsOK(proc[p])
      BY DEF IInv, ProcInv
    <2>2. UseOK(r) /\ ShowsOK(r)
      BY <1>5, <2>1 DEF UseOK, ShowsOK
    <2>3. \A q \in Procs : UseOK(ps[q]) /\ ShowsOK(ps[q])
      BY <1>6, <2>2 DEF IInv, ProcInv
    <2> QED BY <1>7, <2>3 DEF ProcInv, UseOK, ShowsOK
  <1>17. GenInv'
    <2>1. g \in 1 .. gens
      BY <1>10 DEF IInv, GenInv, g
    <2>2. gens \in Nat
      BY DEF IInv, TypeInv
    <2> QED BY <1>2, <1>8, <1>11, <2>1, <2>2, LightDBAssumption DEF IInv, GenInv, In, Gens
  <1>18. proc[p].opened \in Nat /\ (g = dir => proc[p].opened = deletes)
    BY <1>3, <1>10 DEF IInv, ReinitInv, ProcType, g
  <1>19. ReinitInv'
    <2>1. root'[g].opened = proc[p].opened
      BY <1>12
    <2>2. dir # 0 => dir \in Gens
      BY LightDBAssumption DEF IInv, TypeInv, Gens
    <2>3. dir # 0 /\ store'[dir] # {} => root'[dir].opened >= deletes
      BY <1>11, <1>12, <1>18, <2>1, <2>2 DEF IInv, ReinitInv
    <2>4. ASSUME NEW q \in Procs, In(proc[q])
          PROVE  /\ proc[q].gen = dir => proc[q].opened = deletes
                 /\ store'[proc[q].gen] # {} => root'[proc[q].gen].opened >= proc[q].opened
      <3>1. CASE q = p
        BY <1>18, <2>1, <3>1 DEF g
      <3>2. CASE q # p
        BY <1>9, <1>11, <1>12, <1>13, <2>4, <3>2 DEF IInv, ReinitInv
      <3> QED BY <3>1, <3>2
    <2> QED BY <1>2, <1>8, <2>3, <2>4 DEF ReinitInv, In
  <1>20. RootInv'
    <2>1. root'[g].block = b
      BY <1>12
    <2>2. \A h \in Gens : \A s \in store'[h] : s.chain = root'[h].block.chain
      BY <1>11, <1>12, <2>1 DEF IInv, RootInv
    <2>3. ASSUME NEW q \in Procs, In(proc[q])
          PROVE  \/ proc[q].header = NoBlock
                 \/ proc[q].header.chain = root'[proc[q].gen].block.chain
      <3>1. CASE q = p
        BY <3>1 DEF IInv, ProcInv, UseOK
      <3>2. CASE q # p
        BY <1>9, <1>12, <1>13, <2>3, <3>2 DEF IInv, RootInv
      <3> QED BY <3>1, <3>2
    <2> QED BY <1>8, <2>2, <2>3 DEF RootInv, In
  <1>21. ZeroInv'
    <2>1. \A q \in Procs : ps[q].pc = "idle" => ps[q].shows = 0
      BY <1>5, <1>6 DEF IInv, ProcInv, ShowsOK
    <2> QED BY <1>7, <2>1 DEF ZeroInv, In
  <1> QED BY <1>14, <1>15, <1>16, <1>17, <1>19, <1>20, <1>21 DEF IInv

-----------------------------------------------------------------------------
(* The actions *)

\* A process that is in no session holds no lock.
LEMMA NoLock ==
    ASSUME IInv, NEW p \in Procs, ~In(proc[p])
    PROVE  lock = [g \in Gens |-> IF lock[g] = p THEN NoProc ELSE lock[g]]
  BY DEF IInv, TypeInv, LockDiscipline, InSession, In

LEMMA IdleOK == Idle \in ProcType /\ ~In(Idle) /\ UseOK(Idle) /\ ShowsOK(Idle) /\ Idle.shows = 0
  <1>1. << >> \in Seq(Sessions)
    BY EmptySeq
  <1>2. Idle \in ProcType
    BY <1>1, LightDBAssumption DEF Idle, ProcType
  <1> QED BY <1>2 DEF Idle, In, UseOK, ShowsOK

\* Every command is a sequence of sessions, and has one at least.
LEMMA CommandsOK ==
    ASSUME NEW p \in Procs, NEW s \in Commands(p)
    PROVE  s \in Seq(Sessions) /\ s # << >>
  <1>1. /\ ForceInit \in Sessions /\ WrongFlags \in Sessions /\ LastHeight \in Sessions
        /\ \A b \in Blocks : WithTrust(b) \in Sessions
    BY DEF Sessions
  <1>2. \A h \in {0} \cup Heights : Trusted(h) \in Sessions /\ Update(h) \in Sessions
    <2>1. {0} \cup Heights \subseteq 0 .. MaxHeight
      BY LightDBAssumption DEF Heights
    <2> QED BY <2>1 DEF Sessions
  <1>3. \A x \in Sessions : << x >> \in Seq(Sessions) /\ << x >> # << >>
    OBVIOUS
  <1>4. \A x, y \in Sessions : << x, y >> \in Seq(Sessions) /\ << x, y >> # << >>
    OBVIOUS
  <1>5. CASE s \in RelayerCommands
    BY <1>2, <1>3, <1>5 DEF RelayerCommands
  <1>6. CASE s \in InitCommands
    <2>1. CASE s \in {<< ForceInit >>, << WrongFlags >>}
      BY <1>1, <1>3, <2>1
    <2>2. CASE s \in {<< WithTrust(b) >> : b \in Blocks}
      <3>1. PICK b \in Blocks : s = << WithTrust(b) >> BY <2>2
      <3> QED BY <1>1, <1>3, <3>1
    <2> QED BY <1>6, <2>1, <2>2 DEF InitCommands
  <1>7. CASE s = UpdateCommand
    BY <1>2, <1>4, <1>7 DEF UpdateCommand
  <1>8. CASE s \in HeaderCommands
    BY <1>1, <1>2, <1>3, <1>8 DEF HeaderCommands
  <1> QED BY <1>5, <1>6, <1>7, <1>8 DEF Commands

LEMMA RunInv ==
    ASSUME IInv, NEW p \in Procs, NEW s \in Commands(p), Run(p, s)
    PROVE  IInv'
  <1>1. proc \in [Procs -> ProcType] /\ proc[p] \in ProcType /\ proc[p].pc = "idle"
    BY DEF IInv, TypeInv, Run
  <1>2. s \in Seq(Sessions) /\ s # << >>
    BY CommandsOK
  <1>3. PICK r : r = [proc[p] EXCEPT !.pc = "open", !.todo = s]
    OBVIOUS
  <1>4. /\ r \in ProcType /\ r.pc = "open" /\ r.todo = s
        /\ r.header = proc[p].header /\ r.shows = proc[p].shows
    BY <1>1, <1>2, <1>3 DEF ProcType
  <1>5. proc' = [proc EXCEPT ![p] = r] /\ UNCHANGED << height, node, disk >>
    BY <1>1, <1>3 DEF Run
  <1>6. r.shows = 0 /\ UseOK(r) /\ ShowsOK(r) /\ ~In(r)
    BY <1>1, <1>2, <1>4 DEF IInv, ProcInv, UseOK, ShowsOK, In
  <1>7. lock' = [g \in Gens |-> IF lock[g] = p THEN NoProc ELSE lock[g]]
    BY <1>1, <1>5, NoLock DEF In, disk
  <1> QED BY <1>4, <1>5, <1>6, <1>7, OutOfSession DEF disk

LEMMA OpenDBBusyInv ==
    ASSUME IInv, NEW p \in Procs, OpenDBBusy(p)
    PROVE  IInv'
  <1>1. proc \in [Procs -> ProcType] /\ proc[p] \in ProcType /\ proc[p].pc = "open"
    BY DEF IInv, TypeInv, OpenDBBusy
  <1>2. PICK r : r = TryAgain(p)
    OBVIOUS
  <1>3. proc' = [proc EXCEPT ![p] = r] /\ UNCHANGED << height, node, disk >>
    BY <1>2 DEF OpenDBBusy
  <1>4. lock' = [g \in Gens |-> IF lock[g] = p THEN NoProc ELSE lock[g]]
    BY <1>1, <1>3, NoLock DEF In, disk
  <1>5. CASE r = Idle
    BY <1>3, <1>4, <1>5, IdleOK, OutOfSession DEF disk
  <1>6. CASE r = [proc[p] EXCEPT !.attempt = @ + 1]
    <2>0. PICK n \in Nat : r = [proc[p] EXCEPT !.attempt = n]
      <3>1. proc[p].attempt + 1 \in Nat BY <1>1 DEF ProcType
      <3> QED BY <1>1, <1>6, <3>1 DEF ProcType
    <2>1. /\ r \in ProcType /\ r.pc = "open" /\ r.todo = proc[p].todo
          /\ r.header = proc[p].header /\ r.shows = proc[p].shows
          /\ r.disturbed = proc[p].disturbed
      BY <1>1, <2>0 DEF ProcType
    <2>2. UseOK(r) /\ ShowsOK(r) /\ ~In(r)
      BY <1>1, <2>1 DEF IInv, ProcInv, UseOK, ShowsOK, In
    <2> QED BY <1>3, <1>4, <2>1, <2>2, OutOfSession DEF disk
  <1> QED BY <1>2, <1>5, <1>6 DEF TryAgain

LEMMA OpenInv ==
    ASSUME IInv, NEW p \in Procs, CreateDB(p) \/ OpenDB(p)
    PROVE  IInv'
  <1>1. CASE CreateDB(p)
    <2>1. /\ proc[p].pc = "open" /\ dir = 0 /\ gens < MaxGen /\ gens' = gens + 1
          /\ dir' = gens' /\ lock' = [lock EXCEPT ![gens'] = p]
          /\ proc' = [proc EXCEPT ![p] = Opened(p, gens')]
          /\ UNCHANGED << height, node, store, root, deletes >>
      BY <1>1 DEF CreateDB
    <2>2. gens' \in Gens
      BY <2>1, LightDBAssumption DEF IInv, TypeInv, Gens
    <2>3. lock[gens'] = NoProc
      <3>1. gens' \notin 1 .. gens
        BY <2>1 DEF IInv, TypeInv
      <3> QED BY <2>2, <3>1 DEF IInv, TypeInv, GenInv, LockDiscipline, InSession, In
    <2> QED BY <2>1, <2>2, <2>3, IntoSession
  <1>2. CASE OpenDB(p)
    <2>1. dir \in Gens
      BY <1>2, LightDBAssumption DEF OpenDB, IInv, TypeInv, Gens
    <2> QED BY <1>2, <2>1, IntoSession DEF OpenDB
  <1> QED BY <1>1, <1>2

LEMMA CloseInv ==
    ASSUME IInv, NEW p \in Procs, CloseDB(p)
    PROVE  IInv'
  <1>1. proc \in [Procs -> ProcType] /\ proc[p] \in ProcType /\ proc[p].pc = "close"
    BY DEF IInv, TypeInv, CloseDB
  <1>2. PICK r : r = IF Len(proc[p].todo) <= 1 THEN Idle
                     ELSE [Idle EXCEPT !.pc = "open", !.todo = Tail(proc[p].todo),
                                       !.shows = proc[p].shows,
                                       !.disturbed = proc[p].disturbed]
    OBVIOUS
  <1>3. /\ proc' = [proc EXCEPT ![p] = r]
        /\ UNCHANGED << height, node, dir, gens, store, root, deletes >>
    BY <1>2 DEF CloseDB
  <1>4. lock' = [g \in Gens |-> IF lock[g] = p THEN NoProc ELSE lock[g]]
    <2>1. lock' = [lock EXCEPT ![proc[p].gen] = NoProc]
      BY DEF CloseDB, Release
    <2>2. \A g \in Gens : lock[g] = p <=> proc[p].gen = g
      BY <1>1 DEF IInv, LockDiscipline, InSession
    <2> QED BY <2>1, <2>2 DEF IInv, TypeInv
  <1>5. CASE r = Idle
    BY <1>3, <1>4, <1>5, IdleOK, OutOfSession
  <1>6. CASE ~(Len(proc[p].todo) <= 1)
    <2>1. proc[p].todo \in Seq(Sessions) /\ Len(proc[p].todo) \in Nat
      BY <1>1, LenProperties DEF ProcType
    <2>2. proc[p].todo # << >>
      BY <1>6, <2>1, EmptySeq
    <2>3. PICK t \in Seq(Sessions) : t = Tail(proc[p].todo) /\ Len(t) = Len(proc[p].todo) - 1
      BY <2>1, <2>2, HeadTailProperties
    <2>4. t # << >>
      <3>1. Len(t) # 0 BY <1>6, <2>1, <2>3
      <3> QED BY <3>1, EmptySeq
    <2>5. r = [Idle EXCEPT !.pc = "open", !.todo = t,
                           !.shows = proc[p].shows, !.disturbed = proc[p].disturbed]
      BY <1>2, <1>6, <2>3
    <2>6. /\ r \in ProcType /\ r.pc = "open" /\ r.todo = t
          /\ r.header = NoBlock /\ r.shows = proc[p].shows
          /\ r.disturbed = proc[p].disturbed
      <3>1. /\ Idle \in ProcType /\ Idle.header = NoBlock
            /\ proc[p].shows \in 0 .. MaxHeight /\ proc[p].disturbed \in BOOLEAN
        BY <1>1, IdleOK DEF ProcType, Idle
      <3> QED BY <2>5, <3>1 DEF ProcType
    <2>7. proc[p].shows # 0 => t = << Trusted(proc[p].shows) >>
      <3> SUFFICES ASSUME proc[p].shows # 0 PROVE t = << Trusted(proc[p].shows) >>
        OBVIOUS
      <3>1. \A x : Len(<< x >>) = 1
        OBVIOUS
      <3>2. ASSUME proc[p].todo = << Trusted(proc[p].shows) >> PROVE FALSE
        <4>1. Len(proc[p].todo) = 1 BY <3>1, <3>2
        <4> QED BY <1>6, <4>1
      <3>3. proc[p].todo = << LastHeight, Trusted(proc[p].shows) >>
        BY <1>1, <2>2, <3>2 DEF IInv, ProcInv, ShowsOK
      <3>4. \A x, y : Tail(<< x, y >>) = << y >>
        OBVIOUS
      <3> QED BY <2>3, <3>3, <3>4
    <2>8. UseOK(r) /\ ShowsOK(r) /\ ~In(r)
      BY <2>4, <2>6, <2>7 DEF UseOK, ShowsOK, In
    <2> QED BY <1>3, <1>4, <2>6, <2>8, OutOfSession
  <1> QED BY <1>2, <1>5, <1>6

LEMMA CrashInv ==
    ASSUME IInv, NEW p \in Procs, Crash(p)
    PROVE  IInv'
  BY IdleOK, OutOfSession DEF Crash

\* A block is committed, or the node replaced.
LEMMA NodeInv ==
    ASSUME IInv, CommitBlock \/ \E c \in Chains : ReplaceNode(c)
    PROVE  IInv'
  <1>1. UNCHANGED << disk, proc >>
    BY DEF CommitBlock, ReplaceNode
  <1>2. height' \in Heights /\ node' \in Chains
    BY LightDBAssumption DEF CommitBlock, ReplaceNode, IInv, TypeInv, Heights
  <1>3. TypeInv'
    BY <1>1, <1>2 DEF IInv, TypeInv, disk
  <1> QED BY <1>1, <1>3 DEF IInv, LockDiscipline, InSession, ProcInv, GenInv,
                            ReinitInv, RootInv, ZeroInv, GenOf, In, disk

\* What a session may be asked for.
LEMMA SessionOK ==
    ASSUME NEW x \in Sessions
    PROVE  /\ x.block.height \in 0 .. MaxHeight
           /\ x.op = "withTrust" => x.block \in Blocks
  <1>1. CASE \E h \in 0 .. MaxHeight : x = Trusted(h) \/ x = Update(h)
    BY <1>1 DEF Trusted, Update, NoBlock
  <1>2. CASE x \in {LastHeight, ForceInit, WrongFlags}
    BY <1>2, LightDBAssumption DEF LastHeight, ForceInit, WrongFlags, NoBlock
  <1>3. CASE \E b \in Blocks : x = WithTrust(b)
    <2>1. PICK b \in Blocks : x = WithTrust(b) BY <1>3
    <2>2. x.block = b BY <2>1 DEF WithTrust
    <2>3. b.height \in 0 .. MaxHeight
      BY LightDBAssumption DEF Blocks, Heights
    <2> QED BY <2>2, <2>3
  <1> QED BY <1>1, <1>2, <1>3 DEF Sessions

\* A session in use, its first request and its store.
LEMMA InUseFacts ==
    ASSUME IInv, NEW p \in Procs, proc[p].pc = "use"
    PROVE  /\ proc[p] \in ProcType /\ In(proc[p]) /\ proc[p].gen \in Gens
           /\ proc[p].header = NoBlock
           /\ proc[p].todo[1] \in Sessions /\ Asked(p) \in 0 .. MaxHeight
           /\ Saved(p) \in SUBSET Blocks
           /\ \A b \in Saved(p) : b.chain = root[proc[p].gen].block.chain
  <1>1. proc[p] \in ProcType
    BY DEF IInv, TypeInv
  <1>2. In(proc[p])
    BY DEF In
  <1>3. proc[p].gen \in Gens
    BY <1>2, LightDBAssumption DEF IInv, GenInv, TypeInv, Gens
  <1>4. proc[p].header = NoBlock /\ proc[p].todo # << >>
    BY DEF IInv, ProcInv, UseOK
  <1>5. proc[p].todo \in Seq(Sessions)
    BY <1>1 DEF ProcType
  <1>6. 1 \in 1 .. Len(proc[p].todo)
    BY <1>4, <1>5, EmptySeq
  <1>7. proc[p].todo[1] \in Sessions
    BY <1>5, <1>6, ElementOfSeq
  <1>8. Asked(p) \in 0 .. MaxHeight
    BY <1>7, SessionOK DEF Asked
  <1>9. Saved(p) \in SUBSET Blocks
    BY <1>3 DEF IInv, TypeInv, Saved
  <1>10. \A b \in Saved(p) : b.chain = root[proc[p].gen].block.chain
    BY <1>3 DEF IInv, RootInv, Saved
  <1> QED BY <1>1, <1>2, <1>3, <1>4, <1>7, <1>8, <1>9, <1>10

\* The last trusted height is the height of a block that is saved.
LEMMA LastTrustedSaved ==
    ASSUME IInv, NEW p \in Procs, proc[p].pc = "use", Saved(p) # {}
    PROVE  /\ LastTrustedHeight(p) \in Heights
           /\ \E b \in Saved(p) : b.height = LastTrustedHeight(p)
  <1> DEFINE H == {b.height : b \in Saved(p)}
             T == {n \in Nat : MaxHeight - n \in H}
  <1>1. Saved(p) \in SUBSET Blocks
    BY InUseFacts
  <1>2. H \subseteq Heights /\ H # {}
    BY <1>1 DEF Blocks
  <1>3. MaxHeight \in Nat \ {0}
    BY LightDBAssumption
  <1>4. PICK h \in H : \A x \in H : x <= h
    <2>1. PICK y : y \in H
      BY <1>2
    <2> HIDE DEF H
    <2>2. MaxHeight - y \in T
      <3>1. y \in 1 .. MaxHeight BY <1>2, <2>1 DEF Heights
      <3>2. MaxHeight - y \in Nat /\ MaxHeight - (MaxHeight - y) = y BY <1>3, <3>1
      <3> QED BY <2>1, <3>2
    <2>3. PICK n \in T : \A m \in T : n <= m
      <3>1. T \subseteq Nat /\ T # {} BY <2>2
      <3> QED BY <3>1, LeastNatural
    <2>4. ASSUME NEW x \in H PROVE x <= MaxHeight - n
      <3>1. x \in 1 .. MaxHeight BY <1>2 DEF Heights
      <3>2. MaxHeight - x \in Nat /\ MaxHeight - (MaxHeight - x) = x BY <1>3, <3>1
      <3>3. MaxHeight - x \in T BY <3>2
      <3>4. n <= MaxHeight - x /\ n \in Nat BY <2>3, <3>3
      <3> QED BY <1>3, <3>1, <3>4
    <2> QED BY <2>3, <2>4
  <1>5. LastTrustedHeight(p) = CHOOSE x \in H : \A b \in Saved(p) : b.height <= x
    BY DEF LastTrustedHeight
  <1>6. \A b \in Saved(p) : b.height <= h
    BY <1>4
  <1>7. LastTrustedHeight(p) \in H
    <2> HIDE DEF H
    <2> QED BY <1>4, <1>5, <1>6
  <1> QED BY <1>2, <1>7

\* The session ends with an error.
LEMMA FailsInv ==
    ASSUME IInv, NEW p \in Procs, proc[p].pc \in {"use", "fetched"}, Fails(p),
           UNCHANGED << height, node, dir, gens, lock, store, root, deletes >>
    PROVE  IInv'
  <1>1. proc \in [Procs -> ProcType] /\ proc[p] \in ProcType
    BY DEF IInv, TypeInv
  <1>2. PICK r : r = [proc[p] EXCEPT !.pc = "close", !.todo = << >>]
    OBVIOUS
  <1>3. /\ r \in ProcType /\ r.pc = "close" /\ r.todo = << >>
        /\ r.gen = proc[p].gen /\ r.opened = proc[p].opened
        /\ r.header = proc[p].header /\ r.shows = proc[p].shows
        /\ r.disturbed = proc[p].disturbed
    <2>1. << >> \in Seq(Sessions) BY EmptySeq
    <2> QED BY <1>1, <1>2, <2>1 DEF ProcType
  <1>4. proc' = [proc EXCEPT ![p] = r]
    BY <1>1, <1>2 DEF Fails
  <1>5. UseOK(r) /\ ShowsOK(r) /\ In(r) /\ In(proc[p]) /\ r.header = NoBlock
    BY <1>3 DEF UseOK, ShowsOK, In, IInv, ProcInv
  <1>6. r.gen \in Gens
    BY <1>3, <1>5, LightDBAssumption DEF IInv, GenInv, TypeInv, Gens
  <1>7. /\ \A b \in store[r.gen] : b.chain = root[r.gen].block.chain
        /\ store \in [Gens -> SUBSET Blocks]
    BY <1>6 DEF IInv, RootInv, TypeInv
  <1> QED BY <1>3, <1>4, <1>5, <1>7, WithinSession

\* The session returns a block it has found, or has verified and saved.
LEMMA ReturnsInv ==
    ASSUME IInv, NEW p \in Procs, proc[p].pc = "use", NEW b \in Blocks, Returns(p, b),
           \/ b \in Saved(p) /\ UNCHANGED store
           \/ Verifies(p, b) /\ SaveLightBlock(p, b),
           UNCHANGED << height, node, dir, gens, lock, root, deletes >>
    PROVE  IInv'
  <1> USE InUseFacts
  <1>1. proc \in [Procs -> ProcType] /\ store \in [Gens -> SUBSET Blocks]
    BY DEF IInv, TypeInv
  <1>2. PICK r : r = [proc[p] EXCEPT !.pc = "close", !.header = b]
    OBVIOUS
  <1>3. /\ r \in ProcType /\ r.pc = "close" /\ r.todo = proc[p].todo
        /\ r.gen = proc[p].gen /\ r.opened = proc[p].opened
        /\ r.header = b /\ r.shows = proc[p].shows
        /\ r.disturbed = proc[p].disturbed
    BY <1>2 DEF ProcType
  <1>4. proc' = [proc EXCEPT ![p] = r]
    BY <1>1, <1>2 DEF Returns
  <1>5. UseOK(r) /\ ShowsOK(r) /\ In(r) /\ In(proc[p])
    <2>1. ShowsOK(proc[p]) BY DEF IInv, ProcInv
    <2> QED BY <1>3, <2>1 DEF UseOK, ShowsOK, In
  <1>6. Saved(p) = store[r.gen] /\ Saved(p) # {} /\ b.chain = root[r.gen].block.chain
    BY <1>3 DEF Saved, Verifies
  <1>7. /\ store' \in [Gens -> SUBSET Blocks]
        /\ \A g \in Gens : store[g] \subseteq store'[g]
        /\ \A g \in Gens : g # r.gen => store'[g] = store[g]
        /\ \A s \in store'[r.gen] : s \in store[r.gen] \/ s = b
    BY <1>1, <1>3 DEF SaveLightBlock
  <1>8. \A g \in Gens : g # r.gen \/ store[g] = {} => store'[g] = store[g]
    BY <1>6, <1>7
  <1>9. \A s \in store'[r.gen] : s.chain = root[r.gen].block.chain
    BY <1>6, <1>7, <1>3
  <1> QED BY <1>3, <1>4, <1>5, <1>6, <1>7, <1>8, <1>9, WithinSession

LEMMA TrustedHeaderInv ==
    ASSUME IInv, NEW p \in Procs, GetLightSignedHeaderAtHeight(p)
    PROVE  IInv'
  <1>1. proc[p].pc = "use" /\ UNCHANGED << height, node, dir, gens, lock, store, root, deletes >>
    BY DEF GetLightSignedHeaderAtHeight, InUse, disk
  <1>2. ASSUME NEW b \in TrustedLightBlock(p, Asked(p)), Returns(p, b) PROVE IInv'
    <2>1. b \in Saved(p) /\ b \in Blocks
      BY <1>1, InUseFacts DEF TrustedLightBlock
    <2> QED BY <1>1, <1>2, <2>1, ReturnsInv
  <1>3. CASE Fails(p)
    BY <1>1, <1>3, FailsInv
  <1> QED BY <1>2, <1>3 DEF GetLightSignedHeaderAtHeight

LEMMA LatestHeightInv ==
    ASSUME IInv, NEW p \in Procs, GetLatestLightHeight(p)
    PROVE  IInv'
  <1> USE InUseFacts
  <1>1. /\ proc[p].pc = "use" /\ proc[p].todo[1].op = "lastHeight"
        /\ UNCHANGED << height, node, dir, gens, lock, store, root, deletes >>
    BY DEF GetLatestLightHeight, InUse, disk
  <1>2. PICK h : h = LastTrustedHeight(p)
    OBVIOUS
  <1>3. CASE h = -1
    <2>1. Fails(p) BY <1>2, <1>3 DEF GetLatestLightHeight
    <2> QED BY <1>1, <2>1, FailsInv
  <1>4. CASE h # -1
    <2>1. proc \in [Procs -> ProcType] /\ proc[p] \in ProcType
      BY <1>1 DEF IInv, TypeInv
    <2>2. Saved(p) # {}
      BY <1>2, <1>4 DEF LastTrustedHeight
    <2>3. h \in Heights /\ \E b \in Saved(p) : b.height = h
      BY <1>1, <1>2, <2>2, LastTrustedSaved
    <2>4. h \in 0 .. MaxHeight
      BY <2>3, LightDBAssumption DEF Heights
    <2>5. PICK t \in Seq(Sessions) : t = << LastHeight, Trusted(h) >>
      <3>1. LastHeight \in Sessions /\ Trusted(h) \in Sessions
        BY <2>4 DEF Sessions
      <3>2. \A x, y \in Sessions : << x, y >> \in Seq(Sessions)
        OBVIOUS
      <3> QED BY <3>1, <3>2
    <2>6. PICK r : r = [proc[p] EXCEPT !.pc = "close", !.shows = h, !.todo = t]
      OBVIOUS
    <2>7. /\ r \in ProcType /\ r.pc = "close" /\ r.todo = t /\ r.shows = h
          /\ r.gen = proc[p].gen /\ r.opened = proc[p].opened
          /\ r.header = proc[p].header /\ r.disturbed = proc[p].disturbed
      BY <2>1, <2>4, <2>5, <2>6 DEF ProcType
    <2>8. proc' = [proc EXCEPT ![p] = r]
      BY <1>2, <1>4, <2>1, <2>5, <2>6 DEF GetLatestLightHeight
    <2>9. UseOK(r) /\ ShowsOK(r) /\ In(r)
      BY <2>5, <2>7 DEF UseOK, ShowsOK, In
    <2>10. /\ In(proc[p]) /\ r.header = NoBlock /\ Saved(p) = store[r.gen]
           /\ store \in [Gens -> SUBSET Blocks]
      BY <1>1, <2>7 DEF Saved, IInv, TypeInv
    <2>11. \A b \in store[r.gen] : b.chain = root[r.gen].block.chain
      BY <1>1, <2>7, <2>10
    <2>12. \E b \in store[r.gen] : b.height = r.shows
      BY <2>3, <2>7, <2>10
    <2> QED BY <1>1, <2>7, <2>8, <2>9, <2>10, <2>11, <2>12, WithinSession
  <1> QED BY <1>3, <1>4

LEMMA UpdateInv ==
    ASSUME IInv, NEW p \in Procs, UpdateToLatest(p) \/ UpdateToHeight(p)
    PROVE  IInv'
  <1>1. /\ proc[p].pc = "use"
        /\ UNCHANGED << height, node, dir, gens, lock, root, deletes >>
    BY DEF UpdateToLatest, UpdateToHeight, InUse
  <1>2. height \in Heights /\ \A h \in Heights : NodeBlock(h) \in Blocks
    BY DEF IInv, TypeInv, NodeBlock, Blocks
  <1>3. ASSUME NEW h, NEW t \in TrustedLightBlock(p, h), Returns(p, t), UNCHANGED store
        PROVE  IInv'
    <2>1. t \in Saved(p) /\ t \in Blocks
      BY <1>1, InUseFacts DEF TrustedLightBlock
    <2> QED BY <1>1, <1>3, <2>1, ReturnsInv
  <1>4. ASSUME Fails(p), UNCHANGED store PROVE IInv'
    BY <1>1, <1>4, FailsInv
  <1>5. ASSUME NEW h \in Heights, Verifies(p, NodeBlock(h)), SaveLightBlock(p, NodeBlock(h)),
               Returns(p, NodeBlock(h))
        PROVE  IInv'
    BY <1>1, <1>2, <1>5, ReturnsInv
  <1>6. CASE UpdateToLatest(p)
    BY <1>2, <1>3, <1>4, <1>5, <1>6 DEF UpdateToLatest
  <1>7. CASE UpdateToHeight(p)
    <2>1. Asked(p) \in Heights
      BY <1>1, <1>7, InUseFacts, LightDBAssumption DEF UpdateToHeight, Heights
    <2> QED BY <1>3, <1>4, <1>5, <1>7, <2>1 DEF UpdateToHeight
  <1> QED BY <1>6, <1>7

LEMMA InitClientInv ==
    ASSUME IInv, NEW p \in Procs, LightClientWithTrust(p) \/ LightClientWithoutTrust(p)
    PROVE  IInv'
  <1>1. CASE LightClientWithTrust(p)
    <2>1. proc[p].pc = "use" /\ proc[p].todo[1].op = "withTrust"
      BY <1>1 DEF LightClientWithTrust, InUse
    <2>2. TrustOptions(p) \in Blocks
      BY <2>1, InUseFacts, SessionOK DEF TrustOptions
    <2>3. CASE NewClient(p, TrustOptions(p), TrustOptions(p))
      BY <2>1, <2>2, <2>3, NewClientInv
    <2>4. CASE Fails(p) /\ UNCHANGED << height, node, disk >>
      BY <2>1, <2>4, FailsInv DEF disk
    <2> QED BY <1>1, <2>3, <2>4 DEF LightClientWithTrust, TrustOptions
  <1>2. CASE LightClientWithoutTrust(p)
    <2>1. proc[p].pc = "fetched"
      BY <1>2 DEF LightClientWithoutTrust
    <2>2. NodeBlock(proc[p].fetched) \in Blocks
      BY <2>1 DEF IInv, TypeInv, ProcInv, UseOK, NodeBlock, Blocks
    <2>3. CASE NewClient(p, NodeBlock(proc[p].fetched), NodeBlock(proc[p].fetched))
      BY <2>1, <2>2, <2>3, NewClientInv
    <2>4. CASE Fails(p) /\ UNCHANGED << height, node, disk >>
      BY <2>1, <2>4, FailsInv DEF disk
    <2> QED BY <1>2, <2>3, <2>4 DEF LightClientWithoutTrust
  <1> QED BY <1>1, <1>2

\* The latest height is asked for: it is known, or asked for again.
LEMMA QueryInv ==
    ASSUME IInv, NEW p \in Procs, QueryLatestHeight(p) \/ QueryFails(p)
    PROVE  IInv'
  <1> USE InUseFacts
  <1>1. /\ proc[p].pc = "use" /\ proc[p].todo[1].op = "force"
        /\ UNCHANGED << height, node, dir, gens, lock, store, root, deletes >>
    BY DEF QueryLatestHeight, QueryFails, InUse, disk
  <1>2. proc \in [Procs -> ProcType] /\ proc[p] \in ProcType
    BY <1>1 DEF IInv, TypeInv
  <1>3. proc[p].shows = 0
    <2> SUFFICES ASSUME proc[p].shows # 0 PROVE FALSE
      OBVIOUS
    <2>1. proc[p].todo = << Trusted(proc[p].shows) >>
      BY <1>1 DEF IInv, ProcInv, ShowsOK
    <2>2. proc[p].todo[1] = Trusted(proc[p].shows)
      BY <2>1
    <2> QED BY <1>1, <2>2 DEF Trusted
  <1>4. ASSUME NEW r \in ProcType, r.pc \in {"use", "fetched"}, r.todo = proc[p].todo,
               r.gen = proc[p].gen, r.opened = proc[p].opened, r.header = proc[p].header,
               r.shows = proc[p].shows, r.disturbed = proc[p].disturbed,
               r.pc = "fetched" => r.fetched \in Heights,
               proc' = [proc EXCEPT ![p] = r]
        PROVE  IInv'
    <2>1. proc[p].todo # << >>
      BY <1>1 DEF IInv, ProcInv, UseOK
    <2>2. UseOK(r) /\ ShowsOK(r) /\ In(r) /\ In(proc[p]) /\ r.header = NoBlock
      BY <1>1, <1>3, <1>4, <2>1 DEF UseOK, ShowsOK, In
    <2>3. store \in [Gens -> SUBSET Blocks] /\ Saved(p) = store[r.gen]
      BY <1>4 DEF IInv, TypeInv, Saved
    <2>4. \A b \in store[r.gen] : b.chain = root[r.gen].block.chain
      BY <1>1, <1>4, <2>3
    <2> QED BY <1>1, <1>4, <2>2, <2>3, <2>4, WithinSession
  <1>5. CASE QueryLatestHeight(p)
    <2>1. PICK r : r = [proc[p] EXCEPT !.pc = "fetched", !.fetched = height]
      OBVIOUS
    <2>2. height \in Heights /\ height \in 0 .. MaxHeight
      BY LightDBAssumption DEF IInv, TypeInv, Heights
    <2>3. proc' = [proc EXCEPT ![p] = r]
      BY <1>2, <1>5, <2>1 DEF QueryLatestHeight
    <2> QED BY <1>2, <1>4, <2>1, <2>2, <2>3 DEF ProcType
  <1>6. CASE QueryFails(p)
    <2>1. PICK n \in Nat : n = proc[p].attempt + 1
      BY <1>2 DEF ProcType
    <2>2. PICK r : r = [proc[p] EXCEPT !.attempt = n]
      OBVIOUS
    <2>3. proc' = [proc EXCEPT ![p] = r]
      BY <1>2, <1>6, <2>1, <2>2 DEF QueryFails
    <2> QED BY <1>1, <1>2, <1>4, <2>2, <2>3 DEF ProcType
  <1> QED BY <1>5, <1>6

LEMMA NextInv == IInv /\ [Next]_vars => IInv'
  <1> SUFFICES ASSUME IInv, [Next]_vars PROVE IInv'
    OBVIOUS
  <1>1. ASSUME NEW p \in Procs, SessionError(p) \/ InitWrongFlags(p) PROVE IInv'
    BY <1>1, FailsInv DEF SessionError, InitWrongFlags, InUse, disk
  <1>2. ASSUME NEW p \in Procs, Step(p) PROVE IInv'
    BY <1>1, <1>2, OpenInv, OpenDBBusyInv, CloseInv, TrustedHeaderInv, LatestHeightInv,
       UpdateInv, InitClientInv, QueryInv DEF Step, Session
  <1>3. ASSUME NEW p \in Procs, NEW s \in Commands(p), Run(p, s) PROVE IInv'
    BY <1>3, RunInv
  <1>4. ASSUME NEW p \in Procs, Crash(p) PROVE IInv'
    BY <1>4, CrashInv
  <1>5. ASSUME NEW p \in Operators, DeleteLightDB(p) PROVE IInv'
    BY <1>5, DeleteInv DEF Procs
  <1>6. CASE CommitBlock \/ \E c \in Chains : ReplaceNode(c)
    BY <1>6, NodeInv
  <1>7. CASE UNCHANGED vars
    BY <1>7 DEF vars, disk, IInv, TypeInv, LockDiscipline, InSession, ProcInv, GenInv,
                ReinitInv, RootInv, ZeroInv, GenOf, In
  <1> QED BY <1>2, <1>3, <1>4, <1>5, <1>6, <1>7 DEF Next

\* Of "light header 0": the header the second session asks for is there.
LEMMA ZeroFollows == IInv => HeaderZeroFound
  <1> SUFFICES ASSUME IInv, NEW p \in Procs, InUse(p, "trusted"), proc[p].shows # 0,
                      ~proc[p].disturbed
               PROVE  \E b \in TrustedLightBlock(p, Asked(p)) : b.height = proc[p].shows
    BY DEF HeaderZeroFound
  <1>1. proc[p].pc = "use"
    BY DEF InUse
  <1>2. proc[p].todo = << Trusted(proc[p].shows) >>
    BY <1>1 DEF IInv, ProcInv, ShowsOK
  <1>3. proc[p].todo[1] = Trusted(proc[p].shows)
    BY <1>2
  <1>4. Asked(p) = proc[p].shows
    BY <1>3 DEF Asked, Trusted, NoBlock
  <1>5. PICK b \in store[proc[p].gen] : b.height = proc[p].shows
    BY <1>1 DEF IInv, ZeroInv, GenOf, In
  <1> QED BY <1>4, <1>5 DEF TrustedLightBlock, Saved

-----------------------------------------------------------------------------
(* Theorems *)

\* The lock of a database is held by exactly the process whose session is in it,
\* through errors, crashes and deletions of the directory in use.
THEOREM LockAlways == Spec => []LockDiscipline
  <1>1. IInv => LockDiscipline
    BY DEF IInv
  <1> QED BY <1>1, InitInv, NextInv, PTL DEF Spec

\* After "light delete" no session finds a header that rests on a root of trust
\* from before it.
THEOREM ReinitAlways == Spec => []ReinitForced
  <1>1. IInv => ReinitForced
    BY DEF IInv, ReinitInv, ReinitForced, InSession, In, Saved
  <1> QED BY <1>1, InitInv, NextInv, PTL DEF Spec

\* Every header a session returns is on the chain of its database's last root of
\* trust, whatever chain the node has come to serve.
THEOREM RootedAlways == Spec => []RootedHeaders
  <1>1. IInv => RootedHeaders
    BY DEF IInv, RootInv, RootedHeaders, InSession, In
  <1> QED BY <1>1, InitInv, NextInv, PTL DEF Spec

\* "light header 0" finds in its second session the header of the height it read
\* in the first, unless a deletion or a new root of trust came in between.
THEOREM HeaderZeroAlways == Spec => []HeaderZeroFound
  <1> QED BY InitInv, NextInv, ZeroFollows, PTL DEF Spec

=============================================================================
