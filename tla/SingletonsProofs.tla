-------------------------- MODULE SingletonsProofs --------------------------
(***************************************************************************)
(* What the steps of Singletons preserve, for every number of threads and  *)
(* whichever of them are interleaved.  Singletons has no specification of  *)
(* its own: ProcessProofs uses these lemmas.                               *)
(***************************************************************************)
EXTENDS Singletons, TLAPS

Critical == {"recheck", "arguments", "build", "half", "unlock"}

\* The mutex belongs to the thread inside.
Locking == \A t \in Threads, o \in Objects : mutex[o] = t <=> at[t][o] \in Critical

\* What has been built is seen whole by all, except while the builder is still
\* inside; a builder that has not built is the first.
Building ==
    \A o \in Objects :
        /\ builds[o] <= 1
        /\ builds[o] = 0 => o \notin ptr \cup whole
        /\ builds[o] # 0 /\ o \notin ptr \cap whole => \E t \in Threads : at[t][o] = "half"
        /\ \A t \in Threads :
            /\ at[t][o] \in {"arguments", "build"} => builds[o] = 0
            /\ at[t][o] = "half" => builds[o] # 0
            /\ at[t][o] \in {"unlock", "got"} => o \in ptr
        /\ ordered /\ o \in ptr => o \in whole

SingletonsInv == SingletonsTypeOK /\ Locking /\ Building

LEMMA SingletonsInitInv == SingletonsInit => SingletonsInv
BY NoThreadAssumption
DEF SingletonsInit, SingletonsInv, SingletonsTypeOK, Locking, Building, Labels, Critical

\* A move changes one entry of at.
LEMMA MoveChanges ==
    ASSUME at \in [Threads -> [Objects -> Labels]], NEW t \in Threads, NEW o \in Objects,
           NEW from, NEW to \in Labels, Move(t, o, from, to)
    PROVE  /\ at' \in [Threads -> [Objects -> Labels]]
           /\ at[t][o] = from /\ at'[t][o] = to
           /\ \A s \in Threads, p \in Objects :
                (s # t \/ p # o) => at'[s][p] = at[s][p]
<1>1. at' = [at EXCEPT ![t] = [at[t] EXCEPT ![o] = to]] /\ at[t][o] = from
    BY DEF Move
<1>2. [at[t] EXCEPT ![o] = to] \in [Objects -> Labels]
    OBVIOUS
<1> QED
    BY <1>1, <1>2

\* Two threads are not both inside.
LEMMA OneInside ==
    ASSUME SingletonsInv, NEW s \in Threads, NEW t \in Threads, NEW o \in Objects,
           at[s][o] \in Critical, at[t][o] \in Critical
    PROVE  s = t
BY DEF SingletonsInv, Locking

\* A move from outside the mutex to outside, or from inside to inside, leaves the
\* mutex to whom it belongs.
LEMMA MoveLocking ==
    ASSUME SingletonsInv, NEW t \in Threads, NEW o \in Objects,
           NEW from, NEW to \in Labels, Move(t, o, from, to),
           from \in Critical <=> to \in Critical, UNCHANGED mutex
    PROVE  Locking'
BY MoveChanges DEF SingletonsInv, SingletonsTypeOK, Locking

\* A move that builds nothing keeps Building, if what the new label says of the
\* object is so.
LEMMA MoveBuilding ==
    ASSUME SingletonsInv, NEW t \in Threads, NEW o \in Objects,
           NEW from, NEW to \in Labels, Move(t, o, from, to),
           from # "half", to # "half",
           to \in {"arguments", "build"} => builds[o] = 0,
           to \in {"unlock", "got"} => o \in ptr,
           UNCHANGED <<ptr, whole, builds, ordered>>
    PROVE  Building'
<1>1. /\ at[t][o] = from /\ at'[t][o] = to
      /\ \A s \in Threads, p \in Objects : (s # t \/ p # o) => at'[s][p] = at[s][p]
    BY MoveChanges DEF SingletonsInv, SingletonsTypeOK
<1>2. SUFFICES ASSUME NEW p \in Objects
               PROVE  /\ builds[p] # 0 /\ p \notin ptr \cap whole
                            => \E s \in Threads : at'[s][p] = "half"
                      /\ \A s \in Threads :
                            /\ at'[s][p] \in {"arguments", "build"} => builds[p] = 0
                            /\ at'[s][p] = "half" => builds[p] # 0
                            /\ at'[s][p] \in {"unlock", "got"} => p \in ptr
    BY DEF SingletonsInv, Building
<1>3. \A s \in Threads : at[s][p] = "half" => at'[s][p] = "half"
    BY <1>1
<1>4. ASSUME NEW s \in Threads
      PROVE  /\ at'[s][p] \in {"arguments", "build"} => builds[p] = 0
             /\ at'[s][p] = "half" => builds[p] # 0
             /\ at'[s][p] \in {"unlock", "got"} => p \in ptr
    <2>1. CASE s = t /\ p = o
        BY <1>1, <2>1
    <2>2. CASE s # t \/ p # o
        BY <1>1, <2>2 DEF SingletonsInv, Building
    <2> QED
        BY <2>1, <2>2
<1> QED
    BY <1>3, <1>4 DEF SingletonsInv, Building

\* A move keeps the types of what it leaves alone.
LEMMA MoveTypes ==
    ASSUME SingletonsTypeOK, NEW t \in Threads, NEW o \in Objects,
           NEW from, NEW to \in Labels, Move(t, o, from, to),
           UNCHANGED <<mutex, ptr, whole, builds, ordered>>
    PROVE  SingletonsTypeOK'
BY MoveChanges DEF SingletonsTypeOK

LEMMA GetInv ==
    ASSUME SingletonsInv, NEW t \in Threads, NEW o, Get(t, o)
    PROVE  SingletonsInv'
<1>1. CASE o \in Objects
    <2> "check" \in Labels
        BY DEF Labels
    <2>1. Locking'
        BY <1>1, MoveLocking DEF Get, Critical
    <2>2. Building'
        BY <1>1, MoveBuilding DEF Get
    <2>3. SingletonsTypeOK'
        BY <1>1, MoveTypes DEF Get, SingletonsInv
    <2> QED
        BY <2>1, <2>2, <2>3 DEF SingletonsInv
<1>2. CASE o \notin Objects
    <2>1. at' = [at EXCEPT ![t] = [at[t] EXCEPT ![o] = "check"]]
        BY DEF Get, Move
    <2>2. at[t] \in [Objects -> Labels] /\ at \in [Threads -> [Objects -> Labels]]
        BY DEF SingletonsInv, SingletonsTypeOK
    <2>3. [at[t] EXCEPT ![o] = "check"] = at[t]
        BY <1>2, <2>2
    <2>4. at' = at
        BY <2>1, <2>2, <2>3
    <2> QED
        BY <2>4 DEF Get, SingletonsInv, SingletonsTypeOK, Locking, Building
<1> QED
    BY <1>1, <1>2

LEMMA StepInv ==
    ASSUME SingletonsInv, NEW t \in Threads, NEW o \in Objects, SingletonStep(t, o)
    PROVE  SingletonsInv'
<1> USE DEF SingletonsInv
<1>0. Labels = {"out", "got", "check", "lock"} \cup Critical
    BY DEF Labels, Critical
<1>1. CASE Check(t, o)
    <2>1. PICK to \in {"got", "lock"} :
                /\ Move(t, o, "check", to)
                /\ to = "got" => o \in ptr
                /\ UNCHANGED <<mutex, ptr, whole, builds, ordered>>
        BY <1>1 DEF Check
    <2>2. Locking'
        BY <1>0, <2>1, MoveLocking DEF Critical
    <2>3. Building'
        BY <1>0, <2>1, MoveBuilding
    <2>4. SingletonsTypeOK'
        BY <1>0, <2>1, MoveTypes
    <2> QED
        BY <2>2, <2>3, <2>4
<1>2. CASE Lock(t, o)
    <2>1. /\ Move(t, o, "lock", "recheck") /\ mutex[o] = NoThread
          /\ mutex' = [mutex EXCEPT ![o] = t]
          /\ UNCHANGED <<ptr, whole, builds, ordered>>
        BY <1>2 DEF Lock
    <2>2. "recheck" \in Labels
        BY DEF Labels
    <2>3. Locking'
        <3>1. \A s \in Threads : at[s][o] \notin Critical
            BY <2>1, NoThreadAssumption DEF Locking
        <3> QED
            BY <2>1, <2>2, <3>1, MoveChanges DEF SingletonsTypeOK, Locking, Critical
    <2>4. Building'
        BY <2>1, <2>2, MoveBuilding
    <2>5. SingletonsTypeOK'
        BY <2>1, <2>2, MoveChanges DEF SingletonsTypeOK
    <2> QED
        BY <2>3, <2>4, <2>5
<1>3. CASE Recheck(t, o)
    <2>1. PICK to \in {"unlock", "arguments"} :
                /\ Move(t, o, "recheck", to)
                /\ to = "unlock" <=> o \in ptr
                /\ UNCHANGED <<mutex, ptr, whole, builds, ordered>>
        BY <1>3 DEF Recheck
    <2>2. Locking'
        BY <1>0, <2>1, MoveLocking DEF Critical
    <2>3. at[t][o] = "recheck"
        BY <2>1 DEF Move
    <2>4. o \notin ptr => builds[o] = 0
        <3>1. \A s \in Threads : at[s][o] # "half"
            BY <2>3, OneInside DEF Critical
        <3> QED
            BY <3>1 DEF Building
    <2>5. Building'
        BY <1>0, <2>1, <2>4, MoveBuilding DEF Critical
    <2>6. SingletonsTypeOK'
        BY <1>0, <2>1, MoveTypes DEF Critical
    <2> QED
        BY <2>2, <2>5, <2>6
<1>4. CASE Argument(t, o)
    BY <1>4, GetInv DEF Argument
<1>5. CASE ArgumentsReady(t, o)
    <2>1. /\ Move(t, o, "arguments", "build")
          /\ UNCHANGED <<mutex, ptr, whole, builds, ordered>>
        BY <1>5 DEF ArgumentsReady
    <2>2. Locking'
        BY <1>0, <2>1, MoveLocking DEF Critical
    <2>3. builds[o] = 0
        BY <2>1 DEF Move, Building
    <2>4. Building'
        BY <1>0, <2>1, <2>3, MoveBuilding DEF Critical
    <2>5. SingletonsTypeOK'
        BY <1>0, <2>1, MoveTypes DEF Critical
    <2> QED
        BY <2>2, <2>4, <2>5
<1>6. CASE Build(t, o)
    <2>1. /\ Move(t, o, "build", "half")
          /\ builds' = [builds EXCEPT ![o] = @ + 1]
          /\ UNCHANGED <<mutex, ordered>>
          /\ ptr' \subseteq ptr \cup {o} /\ whole' \subseteq whole \cup {o}
          /\ ptr \subseteq ptr' /\ whole \subseteq whole'
          /\ ordered => ptr' = ptr
        BY <1>6 DEF Build
    <2>2. Locking'
        BY <1>0, <2>1, MoveLocking DEF Critical
    <2>3. /\ at[t][o] = "build" /\ at'[t][o] = "half"
          /\ at' \in [Threads -> [Objects -> Labels]]
          /\ \A s \in Threads, p \in Objects : (s # t \/ p # o) => at'[s][p] = at[s][p]
        BY <1>0, <2>1, MoveChanges DEF SingletonsTypeOK, Critical
    <2>4. builds[o] = 0 /\ builds'[o] = 1
        BY <2>1, <2>3 DEF SingletonsTypeOK, Building
    <2>5. \A s \in Threads : at'[s][o] \notin {"arguments", "build"}
        BY <2>3, OneInside DEF Critical
    <2>6. \A p \in Objects : p # o => builds'[p] = builds[p]
        BY <2>1 DEF SingletonsTypeOK
    <2>7. ordered => o \in whole'
        BY <1>6 DEF Build
    <2>8. Building'
        BY <2>1, <2>3, <2>4, <2>5, <2>6, <2>7 DEF Building
    <2>9. SingletonsTypeOK'
        BY <2>1, <2>3 DEF SingletonsTypeOK
    <2> QED
        BY <2>2, <2>8, <2>9
<1>7. CASE Built(t, o)
    <2>1. /\ Move(t, o, "half", "unlock")
          /\ ptr' = ptr \cup {o} /\ whole' = whole \cup {o}
          /\ UNCHANGED <<mutex, builds, ordered>>
        BY <1>7 DEF Built
    <2>2. Locking'
        BY <1>0, <2>1, MoveLocking DEF Critical
    <2>3. /\ at[t][o] = "half" /\ at'[t][o] = "unlock"
          /\ at' \in [Threads -> [Objects -> Labels]]
          /\ \A s \in Threads, p \in Objects : (s # t \/ p # o) => at'[s][p] = at[s][p]
        BY <1>0, <2>1, MoveChanges DEF SingletonsTypeOK, Critical
    <2>4. \A s \in Threads : at'[s][o] \notin {"arguments", "build"}
        BY <2>3, OneInside DEF Critical
    <2>5. Building'
        BY <2>1, <2>3, <2>4 DEF Building
    <2>6. SingletonsTypeOK'
        BY <2>1, <2>3 DEF SingletonsTypeOK
    <2> QED
        BY <2>2, <2>5, <2>6
<1>8. CASE Unlock(t, o)
    <2>1. /\ Move(t, o, "unlock", "got")
          /\ mutex' = [mutex EXCEPT ![o] = NoThread]
          /\ UNCHANGED <<ptr, whole, builds, ordered>>
        BY <1>8 DEF Unlock
    <2>2. Locking'
        <3>1. at[t][o] = "unlock" /\ \A s \in Threads : s # t => at[s][o] \notin Critical
            BY <1>0, <2>1, OneInside, MoveChanges DEF SingletonsTypeOK, Critical
        <3> QED
            BY <1>0, <2>1, <3>1, NoThreadAssumption, MoveChanges
            DEF SingletonsTypeOK, Locking, Critical
    <2>3. o \in ptr
        BY <2>1 DEF Move, Building
    <2>4. Building'
        BY <1>0, <2>1, <2>3, MoveBuilding
    <2>5. SingletonsTypeOK'
        BY <1>0, <2>1, MoveChanges DEF SingletonsTypeOK
    <2> QED
        BY <2>2, <2>4, <2>5
<1> QED
    BY <1>1, <1>2, <1>3, <1>4, <1>5, <1>6, <1>7, <1>8 DEF SingletonStep

\* A thread that is in no function may drop what it got.
LEMMA DropPointersInv ==
    ASSUME SingletonsInv, NEW t \in Threads, DropPointers(t),
           \A o \in Objects : at[t][o] \in {"out", "got"}
    PROVE  SingletonsInv'
BY DEF DropPointers, SingletonsInv, SingletonsTypeOK, Locking, Building, Critical, Labels

\* The invariant gives both properties.
LEMMA SingletonsSafe == SingletonsInv => BuiltOnce /\ BuiltBeforeUse
<1> SUFFICES ASSUME SingletonsInv PROVE BuiltOnce /\ BuiltBeforeUse
    OBVIOUS
<1>1. BuiltOnce
    BY DEF SingletonsInv, Building, BuiltOnce
<1>2. ASSUME NEW t \in Threads, NEW o \in Objects, at[t][o] = "got", o \notin whole
      PROVE  ~ordered /\ mutex[o] \notin {t, NoThread}
    <2>1. o \in ptr /\ ~ordered /\ builds[o] # 0
        BY <1>2 DEF SingletonsInv, Building
    <2>2. PICK s \in Threads : at[s][o] = "half"
        BY <1>2, <2>1 DEF SingletonsInv, Building
    <2>3. mutex[o] = s /\ s # t
        BY <1>2, <2>2 DEF SingletonsInv, Locking, Critical
    <2> QED
        BY <2>1, <2>3, NoThreadAssumption
<1> QED
    BY <1>1, <1>2 DEF BuiltBeforeUse
=============================================================================
