--------------------------- MODULE Coroutine_proofs ---------------------------
(***************************************************************************)
(* Invariants of Coroutine, for every number of threads and of contexts:   *)
(* what the manager of a thread says of its contexts is so, as long as no  *)
(* two threads created the key.                                            *)
(***************************************************************************)
EXTENDS Coroutine, FiniteSetTheorems, WellFoundedInduction, TLAPS

Places == {"normal", "create", "flag", "install", "in", "exiting", "unbacked", "ended",
           "returned", "exited"}

TypeOK ==
    /\ inited \in BOOLEAN
    /\ created \in Nat /\ key = created
    /\ specific \in [Threads -> [Keys -> Managers \union {None}]]
    /\ heap \in [Contexts -> [by : Threads \union {None}, saved : Contexts \union {None}]]
    /\ running \in [Threads -> Contexts \union {None}]
    /\ at \in [Threads -> Places]

Owns(t, c) == heap[c].by = t

\* A thread before its first initialization, or for which there was no memory.
Fresh(t) ==
    /\ specific[t] = [k \in Keys |-> None]
    /\ running[t] = None
    /\ \A c \in Contexts : ~Owns(t, c)

\* A thread whose manager is true.
Managed(t) ==
    LET m == specific[t][1] IN
    /\ m \in Managers
    /\ m.current = running[t] /\ running[t] \in m.slots
    /\ \A c \in Contexts : c \in m.slots <=> Owns(t, c)
    /\ heap[running[t]].saved = None
    /\ \A c \in m.slots \ {running[t]} : heap[c].saved = c

\* Where a thread is tells what it has, once the key is there and if it is the only one.
Tidy(t) ==
    /\ at[t] \in {"normal", "create", "flag"} => Fresh(t)
    /\ at[t] = "install" => Fresh(t) \/ Managed(t)
    /\ at[t] = "in" => Managed(t)
    /\ at[t] = "exiting" => running[t] \in Contexts /\ \A c \in Contexts : Owns(t, c) <=> c = running[t]
    /\ at[t] \in {"unbacked", "ended"} => \A c \in Contexts : ~Owns(t, c)

\* The flag is raised, and looked at, on the way past the creation of the key.
KeyFirst ==
    /\ inited => created # 0
    /\ \A t \in Threads : at[t] \in {"flag", "install", "in", "exiting", "unbacked", "ended"} => created # 0
    /\ \A t \in Threads : at[t] \in {"install", "in"} => inited

Sound == TypeOK /\ KeyFirst /\ \A t \in Threads : Tidy(t)

CoroutineInv ==
    /\ created \in Nat
    /\ OneKey => Sound

-----------------------------------------------------------------------------
(* Memory *)

\* The least number of a set, which exists by well-founded induction.
LEMMA MinIsElement ==
    ASSUME NEW S, S \subseteq Nat, S # {}
    PROVE  Min(S) \in S
<1>1. IsWellFoundedOn(OpToRel(<, Nat), Nat)
    BY NatLessThanWellFounded
<1>2. PICK x \in S : \A y \in S : ~(<<y, x>> \in OpToRel(<, Nat))
    BY <1>1, WFMin
<1>3. \A y \in S : ~(y < x)
    BY <1>2 DEF OpToRel
<1>4. \A y \in S : x <= y
  <2>1. \A y \in S : x \in Nat /\ y \in Nat
      OBVIOUS
  <2> QED
      BY <1>3, <2>1
<1> QED
    BY <1>4 DEF Min

\* What is allocated was free.
LEMMA NewIsFree ==
    ASSUME NoneIsNull, FreeContexts # {}
    PROVE  New \in Contexts /\ heap[New].by = None
BY MinIsElement DEF NoneIsNull, FreeContexts, New

LEMMA FirstKey ==
    ASSUME IsFiniteSet(Threads), NEW t \in Threads
    PROVE  1 \in Keys
<1>1. Cardinality(Threads) \in Nat /\ Cardinality(Threads) # 0
    BY FS_CardinalityType, FS_EmptySet
<1> QED
    BY <1>1 DEF Keys

\* The steps of one thread leave the contexts of another alone.
LEMMA TidyFrame ==
    ASSUME NEW u, Tidy(u),
           at'[u] = at[u], running'[u] = running[u], specific'[u] = specific[u],
           \A c \in Contexts : heap'[c] = heap[c] \/ (heap[c].by # u /\ heap'[c].by # u)
    PROVE  Tidy(u)'
<1>1. \A c \in Contexts : Owns(u, c)' <=> Owns(u, c)
    BY DEF Owns
<1>2. \A c \in Contexts : Owns(u, c) => heap'[c] = heap[c]
    BY DEF Owns
<1>3. Fresh(u) => Fresh(u)'
    BY <1>1 DEF Fresh
<1>4. Managed(u) => Managed(u)'
    BY <1>1, <1>2 DEF Managed, Managers
<1> QED
    BY <1>1, <1>3, <1>4 DEF Tidy

-----------------------------------------------------------------------------
(* The invariant *)

LEMMA CoroutineInit == NoneIsNull /\ Init => CoroutineInv
<1> SUFFICES ASSUME NoneIsNull, Init PROVE CoroutineInv
    OBVIOUS
<1>1. TypeOK
    BY DEF Init, TypeOK, NoContext, Places
<1>2. KeyFirst
    BY DEF Init, KeyFirst
<1>3. ASSUME NEW t \in Threads PROVE Tidy(t)
  <2>1. at[t] = "normal" /\ running[t] = None /\ specific[t] = [k \in Keys |-> None]
      BY DEF Init
  <2>2. \A c \in Contexts : ~Owns(t, c)
      BY DEF NoneIsNull, Init, Owns, NoContext
  <2> QED
      BY <2>1, <2>2 DEF Tidy, Fresh
<1> QED
    BY <1>1, <1>2, <1>3 DEF CoroutineInv, Sound, TypeOK
\* A thread that only goes from one place to another.
LEMMA GoKeeps ==
    ASSUME Sound, NEW t \in Threads, NEW p \in Places, Goes(t, p),
           UNCHANGED <<created, key, specific, heap, running>>,
           inited' \in BOOLEAN, inited => inited', inited' => created # 0,
           p \in {"flag", "install", "in", "exiting", "unbacked", "ended"} => created # 0,
           p \in {"install", "in"} => inited',
           Tidy(t)'
    PROVE  Sound'
<1>1. at' = [at EXCEPT ![t] = p]
    BY DEF Goes
<1>2. TypeOK'
    BY <1>1 DEF Sound, TypeOK
<1>3. at'[t] = p /\ \A u \in Threads \ {t} : at'[u] = at[u]
    BY <1>1 DEF Sound, TypeOK
<1>4. KeyFirst'
    BY <1>3 DEF Sound, KeyFirst
<1>5. ASSUME NEW u \in Threads \ {t} PROVE Tidy(u)'
    BY <1>3, TidyFrame DEF Sound
<1> QED
    BY <1>2, <1>4, <1>5 DEF Sound

LEMMA LookAtFlagKeeps ==
    ASSUME Sound, NEW t \in Threads, LookAtFlag(t)
    PROVE  Sound'
<1> DEFINE p == IF inited THEN "install" ELSE "create"
<1>1. /\ at[t] \in {"normal", "in"} /\ Goes(t, p)
      /\ UNCHANGED <<inited, key, created, specific, heap, running>>
    BY DEF LookAtFlag
<1>2. at'[t] = p
    BY <1>1 DEF Goes, Sound, TypeOK
<1>3. Tidy(t) /\ KeyFirst /\ inited \in BOOLEAN
    BY DEF Sound, TypeOK
<1>4. Fresh(t)' <=> Fresh(t)
    BY <1>1 DEF Fresh, Owns
<1>5. Managed(t)' <=> Managed(t)
    BY <1>1 DEF Managed, Owns
<1>6. Tidy(t)'
    BY <1>1, <1>2, <1>3, <1>4, <1>5 DEF Tidy, KeyFirst
<1>7. p \in Places
    BY DEF Places
<1> QED
    BY <1>1, <1>3, <1>6, <1>7, GoKeeps DEF KeyFirst

LEMMA CreateKeyKeeps ==
    ASSUME Sound, OneKey', NEW t \in Threads, CreateKey(t)
    PROVE  Sound'
<1>1. /\ at[t] = "create" /\ created' = created + 1 /\ key' = created + 1 /\ Goes(t, "flag")
      /\ UNCHANGED <<inited, specific, heap, running>> /\ at' = [at EXCEPT ![t] = "flag"]
    BY DEF CreateKey, Goes
<1>2. created = 0 /\ created' = 1
    BY <1>1 DEF Sound, TypeOK, OneKey
<1>3. at'[t] = "flag" /\ \A u \in Threads \ {t} : at'[u] = at[u]
    BY <1>1 DEF Sound, TypeOK
<1>4. TypeOK'
    BY <1>1, <1>2 DEF Sound, TypeOK, Places
<1>5. KeyFirst'
    BY <1>1, <1>2, <1>3 DEF Sound, KeyFirst
<1>6. ASSUME NEW u \in Threads \ {t} PROVE Tidy(u)'
    BY <1>1, <1>3, TidyFrame DEF Sound
<1>7. Fresh(t)
    BY <1>1 DEF Sound, Tidy
<1>8. Tidy(t)'
    BY <1>1, <1>3, <1>7 DEF Tidy, Fresh, Owns
<1> QED
    BY <1>4, <1>5, <1>6, <1>8 DEF Sound

LEMMA SetFlagKeeps ==
    ASSUME Sound, NEW t \in Threads, SetFlag(t)
    PROVE  Sound'
<1>1. /\ at[t] = "flag" /\ Goes(t, "install") /\ inited' = TRUE
      /\ UNCHANGED <<created, key, specific, heap, running>>
    BY DEF SetFlag
<1>2. at'[t] = "install"
    BY <1>1 DEF Goes, Sound, TypeOK
<1>3. Fresh(t) /\ created # 0
    BY <1>1 DEF Sound, Tidy, KeyFirst
<1>4. Tidy(t)'
    BY <1>1, <1>2, <1>3 DEF Tidy, Fresh, Owns
<1> QED
    BY <1>1, <1>3, <1>4, GoKeeps DEF Places

\* What a step of a thread past the initialization has to leave in order.
LEMMA StepFrame ==
    ASSUME Sound, NEW t \in Threads, TypeOK',
           UNCHANGED <<created, inited>>,
           \A u \in Threads \ {t} : /\ at'[u] = at[u] /\ running'[u] = running[u]
                                    /\ specific'[u] = specific[u],
           \A u \in Threads \ {t}, c \in Contexts :
              heap'[c] = heap[c] \/ (heap[c].by # u /\ heap'[c].by # u),
           at'[t] \in {"flag", "install", "in", "exiting", "unbacked", "ended"} => created # 0,
           at'[t] \in {"install", "in"} => inited,
           Tidy(t)'
    PROVE  Sound'
<1>1. KeyFirst'
    BY DEF Sound, KeyFirst
<1>2. ASSUME NEW u \in Threads \ {t} PROVE Tidy(u)'
    BY TidyFrame DEF Sound
<1> QED
    BY <1>1, <1>2 DEF Sound

\* The key is there.
LEMMA ManagerIsFirst ==
    ASSUME Sound, OneKey, NEW t \in Threads, at[t] \in {"install", "in", "exiting", "unbacked"}
    PROVE  key = 1 /\ Manager(t) = specific[t][1]
BY DEF Sound, TypeOK, KeyFirst, OneKey, Manager

\* A thread has what a manager says of it.
LEMMA ManagesEffect ==
    ASSUME Sound, OneKey, IsFiniteSet(Threads), NEW t \in Threads,
           at[t] \in {"install", "in", "exiting", "unbacked"},
           NEW m \in Managers \union {None}, Manages(t, m)
    PROVE  /\ specific' \in [Threads -> [Keys -> Managers \union {None}]]
           /\ specific'[t][1] = m
           /\ \A u \in Threads \ {t} : specific'[u] = specific[u]
<1>1. key = 1 /\ 1 \in Keys
    BY ManagerIsFirst, FirstKey
<1>2. specific' = [specific EXCEPT ![t][1] = m]
    BY <1>1 DEF Manages
<1>3. specific \in [Threads -> [Keys -> Managers \union {None}]]
    BY DEF Sound, TypeOK
<1> QED
    BY <1>1, <1>2, <1>3
LEMMA InstallKeeps ==
    ASSUME NoneIsNull, IsFiniteSet(Threads), Sound, OneKey, NEW t \in Threads, Install(t)
    PROVE  Sound'
<1>1. /\ at[t] = "install" /\ UNCHANGED <<inited, key, created>>
      /\ Tidy(t) /\ KeyFirst /\ Manager(t) = specific[t][1] /\ 1 \in Keys
    BY ManagerIsFirst, FirstKey DEF Install, Sound
<1>2. inited /\ created # 0
    BY <1>1 DEF KeyFirst
<1>3. CASE Manager(t) # None
  <2>1. Goes(t, "in") /\ UNCHANGED <<heap, running, specific>>
      BY <1>3 DEF Install
  <2>2. at'[t] = "in"
      BY <2>1 DEF Goes, Sound, TypeOK
  <2>3. Managed(t)
      BY <1>1, <1>3 DEF Tidy, Fresh
  <2>4. Tidy(t)'
      BY <2>1, <2>2, <2>3 DEF Tidy, Managed, Owns
  <2> QED
      BY <1>1, <1>2, <2>1, <2>4, GoKeeps DEF Places
<1>4. CASE Manager(t) = None
  <2>1. Fresh(t)
      BY <1>1, <1>4 DEF Tidy, Managed, NoneIsNull
  <2>2. CASE FreeContexts = {}
    <3>1. Goes(t, "normal") /\ UNCHANGED <<heap, running, specific>>
        BY <1>4, <2>1, <2>2 DEF Install, Fresh
    <3>2. at'[t] = "normal"
        BY <3>1 DEF Goes, Sound, TypeOK
    <3>3. Tidy(t)'
        BY <2>1, <3>1, <3>2 DEF Tidy, Fresh, Owns
    <3> QED
        BY <1>1, <1>2, <3>1, <3>3, GoKeeps DEF Places
  <2>3. CASE FreeContexts # {}
    <3> DEFINE n == New
               m == [main |-> n, current |-> n, slots |-> {n}]
    <3>1. /\ Goes(t, "in") /\ heap' = [heap EXCEPT ![n] = [by |-> t, saved |-> None]]
          /\ running' = [running EXCEPT ![t] = n] /\ Manages(t, m)
        BY <1>4, <2>3 DEF Install
    <3>2. n \in Contexts /\ heap[n].by = None
        BY <2>3, NewIsFree
    <3> HIDE DEF n
    <3>3. m \in Managers
        BY <3>2 DEF Managers
    <3>4. /\ specific' \in [Threads -> [Keys -> Managers \union {None}]] /\ specific'[t][1] = m
          /\ \A u \in Threads \ {t} : specific'[u] = specific[u]
        BY <1>1, <3>1, <3>3, ManagesEffect
    <3>5. TypeOK'
        BY <1>1, <3>1, <3>2, <3>4 DEF Sound, TypeOK, Goes, Places
    <3>6. /\ at'[t] = "in" /\ running'[t] = n
          /\ \A u \in Threads \ {t} : at'[u] = at[u] /\ running'[u] = running[u]
        BY <3>1 DEF Sound, TypeOK, Goes
    <3>7. heap'[n] = [by |-> t, saved |-> None] /\ \A c \in Contexts \ {n} : heap'[c] = heap[c]
        BY <3>1, <3>2 DEF Sound, TypeOK
    <3>8. \A u \in Threads \ {t} : heap[n].by # u /\ heap'[n].by # u
        BY <3>2, <3>7 DEF NoneIsNull
    <3>9. Managed(t)'
      <4>1. \A c \in Contexts : c \in m.slots <=> Owns(t, c)'
          BY <2>1, <3>7 DEF Fresh, Owns
      <4> QED
          BY <3>3, <3>4, <3>6, <3>7, <4>1 DEF Managed
    <3>10. Tidy(t)'
        BY <3>6, <3>9 DEF Tidy
    <3> QED
        BY <1>1, <1>2, <3>4, <3>5, <3>6, <3>7, <3>8, <3>10, StepFrame
  <2> QED
      BY <2>2, <2>3
<1> QED
    BY <1>3, <1>4

LEMMA CreateCoroutineKeeps ==
    ASSUME NoneIsNull, IsFiniteSet(Threads), Sound, OneKey, NEW t \in Threads, CreateCoroutine(t)
    PROVE  Sound'
<1> DEFINE n == New
           m == specific[t][1]
           k == [m EXCEPT !.slots = @ \union {n}]
<1>1. /\ at[t] = "in" /\ FreeContexts # {} /\ Managed(t) /\ inited /\ created # 0
      /\ m \in Managers
    BY DEF CreateCoroutine, Sound, Tidy, KeyFirst, Managed
<1>2. n \in Contexts /\ heap[n].by = None
    BY <1>1, NewIsFree
<1>3. /\ heap' = [heap EXCEPT ![n] = [by |-> t, saved |-> n]] /\ Manages(t, k)
      /\ UNCHANGED <<inited, key, created, running, at>>
    BY <1>1, ManagerIsFirst DEF CreateCoroutine
<1> HIDE DEF n
<1>4. /\ k \in Managers /\ k.current = m.current /\ k.slots = m.slots \union {n}
    BY <1>1, <1>2 DEF Managers
<1> HIDE DEF k
<1>5. /\ specific' \in [Threads -> [Keys -> Managers \union {None}]] /\ specific'[t][1] = k
      /\ \A u \in Threads \ {t} : specific'[u] = specific[u]
    BY <1>1, <1>3, <1>4, ManagesEffect
<1>6. TypeOK'
    BY <1>2, <1>3, <1>5 DEF Sound, TypeOK
<1>7. heap'[n] = [by |-> t, saved |-> n] /\ \A c \in Contexts \ {n} : heap'[c] = heap[c]
    BY <1>2, <1>3 DEF Sound, TypeOK
<1>8. \A u \in Threads \ {t} : heap[n].by # u /\ heap'[n].by # u
    BY <1>2, <1>7 DEF NoneIsNull
<1>9. Managed(t)'
  <2>1. n \notin m.slots /\ running[t] \in Contexts
      BY <1>1, <1>2 DEF Managed, Owns, NoneIsNull, Managers
  <2>2. \A c \in Contexts : c \in k.slots <=> Owns(t, c)'
      BY <1>1, <1>4, <1>7 DEF Managed, Owns
  <2> QED
      BY <1>1, <1>3, <1>4, <1>5, <1>7, <2>1, <2>2 DEF Managed, Managers
<1>10. Tidy(t)'
    BY <1>1, <1>3, <1>9 DEF Tidy
<1> QED
    BY <1>1, <1>3, <1>5, <1>6, <1>7, <1>8, <1>10, StepFrame

LEMMA SwitchKeeps ==
    ASSUME NoneIsNull, IsFiniteSet(Threads), Sound, OneKey,
           NEW t \in Threads, NEW c \in Contexts, SwitchToCoroutine(t, c)
    PROVE  Sound'
<1> DEFINE m == specific[t][1]
           r == running[t]
           k == [m EXCEPT !.current = c]
<1>1. /\ at[t] = "in" /\ Managed(t) /\ inited /\ created # 0 /\ m \in Managers
      /\ m.current = r /\ r \in m.slots /\ r \in Contexts
    BY DEF SwitchToCoroutine, Sound, Tidy, KeyFirst, Managed, Managers
<1>2. /\ c # r /\ c \in m.slots /\ Manages(t, k)
      /\ heap' = [heap EXCEPT ![r].saved = r, ![c].saved = None]
      /\ running' = [running EXCEPT ![t] = heap[c].saved]
      /\ UNCHANGED <<inited, key, created, at>>
    BY <1>1, ManagerIsFirst DEF SwitchToCoroutine, Swap
<1>3. heap[c].saved = c /\ heap[c].by = t /\ heap[r].by = t
    BY <1>1, <1>2 DEF Managed, Owns
<1>4. k \in Managers /\ k.current = c /\ k.slots = m.slots
    BY <1>1 DEF Managers
<1> HIDE DEF k
<1>5. /\ specific' \in [Threads -> [Keys -> Managers \union {None}]] /\ specific'[t][1] = k
      /\ \A u \in Threads \ {t} : specific'[u] = specific[u]
    BY <1>1, <1>2, <1>4, ManagesEffect
<1>6. TypeOK'
  <2>1. heap' \in [Contexts -> [by : Threads \union {None}, saved : Contexts \union {None}]]
      BY <1>1, <1>2 DEF Sound, TypeOK
  <2> QED
      BY <1>2, <1>3, <1>5, <2>1 DEF Sound, TypeOK
<1>7. /\ heap'[c].saved = None /\ heap'[c].by = t /\ heap'[r].saved = r /\ heap'[r].by = t
      /\ \A x \in Contexts \ {c, r} : heap'[x] = heap[x]
    BY <1>1, <1>2, <1>3 DEF Sound, TypeOK
<1>8. running'[t] = c /\ \A u \in Threads \ {t} : running'[u] = running[u]
    BY <1>2, <1>3 DEF Sound, TypeOK
<1>9. \A u \in Threads \ {t}, x \in Contexts :
         heap'[x] = heap[x] \/ (heap[x].by # u /\ heap'[x].by # u)
    BY <1>3, <1>7
<1>10. Managed(t)'
  <2>1. \A x \in Contexts : x \in k.slots <=> Owns(t, x)'
      BY <1>1, <1>3, <1>4, <1>7 DEF Managed, Owns
  <2>2. \A x \in k.slots \ {c} : heap'[x].saved = x
      BY <1>1, <1>4, <1>7 DEF Managed, Managers
  <2> QED
      BY <1>2, <1>4, <1>5, <1>7, <1>8, <2>1, <2>2 DEF Managed
<1>11. Tidy(t)'
    BY <1>1, <1>2, <1>10 DEF Tidy
<1> QED
    BY <1>1, <1>2, <1>5, <1>6, <1>8, <1>9, <1>11, StepFrame

LEMMA DeleteKeeps ==
    ASSUME NoneIsNull, IsFiniteSet(Threads), Sound, OneKey,
           NEW t \in Threads, NEW c \in Contexts, DeleteOther(t, c)
    PROVE  Sound'
<1> DEFINE m == specific[t][1]
           k == [m EXCEPT !.slots = @ \ {c}]
<1>1. /\ at[t] = "in" /\ Managed(t) /\ inited /\ created # 0 /\ m \in Managers
    BY DEF DeleteOther, Sound, Tidy, KeyFirst, Managed
<1>2. /\ c # m.current /\ heap[c].by = t /\ Manages(t, k)
      /\ heap' = [heap EXCEPT ![c] = NoContext]
      /\ UNCHANGED <<inited, key, created, running, at>>
    BY <1>1, ManagerIsFirst DEF DeleteOther
<1>3. k \in Managers /\ k.current = m.current /\ k.slots = m.slots \ {c}
    BY <1>1 DEF Managers
<1> HIDE DEF k
<1>4. /\ specific' \in [Threads -> [Keys -> Managers \union {None}]] /\ specific'[t][1] = k
      /\ \A u \in Threads \ {t} : specific'[u] = specific[u]
    BY <1>1, <1>2, <1>3, ManagesEffect
<1>5. TypeOK'
    BY <1>2, <1>4 DEF Sound, TypeOK, NoContext
<1>6. heap'[c].by = None /\ \A x \in Contexts \ {c} : heap'[x] = heap[x]
    BY <1>2 DEF Sound, TypeOK, NoContext
<1>7. \A u \in Threads \ {t} : heap[c].by # u /\ heap'[c].by # u
    BY <1>2, <1>6 DEF NoneIsNull
<1>8. Managed(t)'
  <2>1. \A x \in Contexts : x \in k.slots <=> Owns(t, x)'
      BY <1>1, <1>3, <1>6 DEF Managed, Owns, NoneIsNull
  <2>2. running[t] \in k.slots /\ running[t] \in Contexts \ {c}
      BY <1>1, <1>2, <1>3 DEF Managed, Managers
  <2>3. \A x \in k.slots : x \in Contexts \ {c} /\ x \in m.slots
      BY <1>1, <1>3 DEF Managers
  <2> QED
      BY <1>1, <1>2, <1>3, <1>4, <1>6, <2>1, <2>2, <2>3 DEF Managed
<1>9. Tidy(t)'
    BY <1>1, <1>2, <1>8 DEF Tidy
<1> QED
    BY <1>1, <1>2, <1>4, <1>5, <1>6, <1>7, <1>9, StepFrame

LEMMA ShutDownKeeps ==
    ASSUME NoneIsNull, IsFiniteSet(Threads), Sound, OneKey, NEW t \in Threads, ShutDown(t)
    PROVE  Sound'
<1> DEFINE m == specific[t][1]
<1>1. /\ at[t] = "in" /\ Managed(t) /\ inited /\ created # 0 /\ m \in Managers
      /\ m.current = running[t] /\ running[t] \in m.slots /\ running[t] \in Contexts
    BY DEF ShutDown, Sound, Tidy, KeyFirst, Managed, Managers
<1>2. /\ heap' = [c \in Contexts |-> IF c \in m.slots \ {running[t]} THEN NoContext ELSE heap[c]]
      /\ Manages(t, None) /\ Goes(t, "exiting")
      /\ UNCHANGED <<inited, key, created, running>>
    BY <1>1, ManagerIsFirst DEF ShutDown
<1>3. /\ specific' \in [Threads -> [Keys -> Managers \union {None}]]
      /\ \A u \in Threads \ {t} : specific'[u] = specific[u]
    BY <1>1, <1>2, ManagesEffect
<1>4. TypeOK'
    BY <1>2, <1>3 DEF Sound, TypeOK, NoContext, Goes, Places
<1>5. at'[t] = "exiting" /\ \A u \in Threads \ {t} : at'[u] = at[u]
    BY <1>2 DEF Sound, TypeOK, Goes
<1>6. \A c \in Contexts : IF c \in m.slots \ {running[t]} THEN heap'[c].by = None ELSE heap'[c] = heap[c]
    BY <1>2 DEF NoContext
<1>7. \A c \in m.slots : c \in Contexts => heap[c].by = t
    BY <1>1 DEF Managed, Owns
<1>8. \A u \in Threads \ {t}, c \in Contexts :
         heap'[c] = heap[c] \/ (heap[c].by # u /\ heap'[c].by # u)
    BY <1>6, <1>7 DEF NoneIsNull
<1>9. \A c \in Contexts : Owns(t, c)' <=> c = running[t]
  <2>1. \A c \in Contexts : c \in m.slots <=> heap[c].by = t
      BY <1>1 DEF Managed, Owns
  <2> QED
      BY <1>1, <1>6, <2>1 DEF Owns, NoneIsNull
<1>10. Tidy(t)'
    BY <1>1, <1>2, <1>5, <1>9 DEF Tidy
<1> QED
    BY <1>1, <1>2, <1>3, <1>4, <1>5, <1>8, <1>10, StepFrame

LEMMA FreeCurrentKeeps ==
    ASSUME NoneIsNull, Sound, OneKey, NEW t \in Threads, FreeCurrent(t)
    PROVE  Sound'
<1> DEFINE r == running[t]
<1>1. /\ at[t] = "exiting" /\ heap' = [heap EXCEPT ![r] = NoContext] /\ Goes(t, "unbacked")
      /\ UNCHANGED <<inited, key, created, specific, running>>
    BY DEF FreeCurrent
<1>2. r \in Contexts /\ (\A c \in Contexts : Owns(t, c) <=> c = r) /\ created # 0
    BY <1>1 DEF Sound, Tidy, KeyFirst
<1>3. TypeOK'
    BY <1>1 DEF Sound, TypeOK, NoContext, Goes, Places
<1>4. at'[t] = "unbacked" /\ \A u \in Threads \ {t} : at'[u] = at[u]
    BY <1>1 DEF Sound, TypeOK, Goes
<1>5. heap'[r].by = None /\ \A c \in Contexts \ {r} : heap'[c] = heap[c]
    BY <1>1, <1>2 DEF Sound, TypeOK, NoContext
<1>6. \A u \in Threads \ {t}, c \in Contexts :
         heap'[c] = heap[c] \/ (heap[c].by # u /\ heap'[c].by # u)
    BY <1>2, <1>5 DEF NoneIsNull, Owns
<1>7. \A c \in Contexts : ~Owns(t, c)'
    BY <1>2, <1>5 DEF Owns, NoneIsNull
<1>8. Tidy(t)'
    BY <1>4, <1>7 DEF Tidy
<1> QED
    BY <1>1, <1>2, <1>3, <1>4, <1>6, <1>8, StepFrame

LEMMA EndKeeps ==
    ASSUME Sound, OneKey, NEW t \in Threads, Exit(t) \/ \E where : Leave(t, where)
    PROVE  Sound'
<1>1. PICK p \in {"ended", "returned", "exited"} :
        /\ Goes(t, p) /\ running' = [running EXCEPT ![t] = None]
        /\ UNCHANGED <<inited, key, created, specific, heap>>
        /\ p = "ended" => at[t] = "unbacked"
    BY DEF Exit, Leave
<1>2. TypeOK'
    BY <1>1 DEF Sound, TypeOK, Goes, Places
<1>3. /\ at'[t] = p /\ \A u \in Threads \ {t} : at'[u] = at[u] /\ running'[u] = running[u]
    BY <1>1 DEF Sound, TypeOK, Goes
<1>4. p = "ended" => created # 0 /\ \A c \in Contexts : ~Owns(t, c)
    BY <1>1 DEF Sound, Tidy, KeyFirst
<1>5. Tidy(t)'
    BY <1>1, <1>3, <1>4 DEF Tidy, Owns
<1> QED
    BY <1>1, <1>2, <1>3, <1>4, <1>5, StepFrame

LEMMA CoroutineFrame == CoroutineInv /\ UNCHANGED coroutineVars => CoroutineInv'
<1> SUFFICES ASSUME CoroutineInv, UNCHANGED coroutineVars PROVE CoroutineInv'
    OBVIOUS
<1>1. UNCHANGED <<inited, key, created, specific, heap, running, at>>
    BY DEF coroutineVars
<1>2. \A t \in Threads : Tidy(t) => Tidy(t)'
    BY <1>1 DEF Tidy, Fresh, Managed, Owns
<1>3. KeyFirst => KeyFirst'
    BY <1>1 DEF KeyFirst
<1>4. TypeOK => TypeOK'
    BY <1>1 DEF TypeOK
<1>5. Sound => Sound'
    BY <1>2, <1>3, <1>4 DEF Sound
<1> QED
    BY <1>1, <1>5 DEF CoroutineInv, OneKey

\* Keys are only added: where there is one at most, there was one at most.
LEMMA KeysGrow ==
    ASSUME created \in Nat, Next
    PROVE  created' \in Nat /\ (OneKey' => OneKey)
<1>1. created' \in {created, created + 1}
    BY DEF Next, CoroutineStep, LookAtFlag, CreateKey, SetFlag, Install, CreateCoroutine, ShutDown,
           FreeCurrent, SwitchToCoroutine, DeleteOther, Exit, Leave
<1> QED
    BY <1>1 DEF OneKey

LEMMA CoroutineNext ==
    ASSUME NoneIsNull, IsFiniteSet(Threads), CoroutineInv, [Next]_coroutineVars
    PROVE  CoroutineInv'
<1>1. CASE UNCHANGED coroutineVars
    BY <1>1, CoroutineFrame
<1>2. CASE Next
  <2>1. created' \in Nat /\ (OneKey' => OneKey)
      BY <1>2, KeysGrow DEF CoroutineInv
  <2>2. SUFFICES ASSUME OneKey' PROVE Sound'
      BY <2>1 DEF CoroutineInv
  <2>3. OneKey /\ Sound
      BY <2>1, <2>2 DEF CoroutineInv
  <2>4. PICK t \in Threads : CoroutineStep(t) \/ Exit(t) \/ Leave(t, "returned") \/ Leave(t, "exited")
      BY <1>2 DEF Next
  <2>5. CASE Exit(t) \/ Leave(t, "returned") \/ Leave(t, "exited")
      BY <2>3, <2>5, EndKeeps
  <2>6. CASE LookAtFlag(t)
      BY <2>3, <2>6, LookAtFlagKeeps
  <2>7. CASE CreateKey(t)
      BY <2>2, <2>3, <2>7, CreateKeyKeeps
  <2>8. CASE SetFlag(t)
      BY <2>3, <2>8, SetFlagKeeps
  <2>9. CASE Install(t)
      BY <2>3, <2>9, InstallKeeps
  <2>10. CASE CreateCoroutine(t)
      BY <2>3, <2>10, CreateCoroutineKeeps
  <2>11. CASE ShutDown(t)
      BY <2>3, <2>11, ShutDownKeeps
  <2>12. CASE FreeCurrent(t)
      BY <2>3, <2>12, FreeCurrentKeeps
  <2>13. ASSUME NEW c \in Contexts, SwitchToCoroutine(t, c) PROVE Sound'
      BY <2>3, <2>13, SwitchKeeps
  <2>14. ASSUME NEW c \in Contexts, DeleteOther(t, c) PROVE Sound'
      BY <2>3, <2>14, DeleteKeeps
  <2> QED
      BY <2>4, <2>5, <2>6, <2>7, <2>8, <2>9, <2>10, <2>11, <2>12, <2>13, <2>14 DEF CoroutineStep
<1> QED
    BY <1>1, <1>2

-----------------------------------------------------------------------------
(* What it says *)

LEMMA InvMeansCurrent == NoneIsNull /\ CoroutineInv => CurrentIsRunning
<1> SUFFICES ASSUME NoneIsNull, CoroutineInv, NEW t \in Threads, OneKey, at[t] = "in"
             PROVE  /\ Manager(t) # None
                    /\ Manager(t).current = running[t]
                    /\ Manager(t).current \in Manager(t).slots
                    /\ heap[running[t]].by = t /\ heap[running[t]].saved = None
    BY DEF CurrentIsRunning
<1>1. Sound
    BY DEF CoroutineInv
<1>2. Managed(t) /\ Manager(t) = specific[t][1]
    BY <1>1, ManagerIsFirst DEF Sound, Tidy
<1>3. Manager(t) \in Managers /\ Manager(t) # None
    BY <1>2 DEF Managed, NoneIsNull
<1>4. Manager(t).slots \subseteq Contexts
    BY <1>3 DEF Managers
<1> QED
    BY <1>2, <1>3, <1>4 DEF Managed, Owns

LEMMA InvMeansSlots == CoroutineInv => SlotsAreMemory
<1> SUFFICES ASSUME CoroutineInv, NEW t \in Threads, OneKey
             PROVE  LET mine == {c \in Contexts : heap[c].by = t} IN
                    /\ at[t] = "in" =>
                         /\ Manager(t).slots = mine
                         /\ \A c \in mine \ {running[t]} : heap[c].saved = c
                    /\ at[t] \in {"unbacked", "ended"} => mine = {}
    BY DEF SlotsAreMemory
<1> DEFINE mine == {c \in Contexts : heap[c].by = t}
<1>1. Sound
    BY DEF CoroutineInv
<1>2. \A c \in Contexts : c \in mine <=> Owns(t, c)
    BY DEF Owns
<1>3. CASE at[t] = "in"
  <2>1. Managed(t) /\ Manager(t) = specific[t][1]
      BY <1>1, <1>3, ManagerIsFirst DEF Sound, Tidy
  <2>2. Manager(t).slots \subseteq Contexts
      BY <2>1 DEF Managed, Managers
  <2>3. Manager(t).slots = mine
      BY <1>2, <2>1, <2>2 DEF Managed
  <2>4. \A c \in mine \ {running[t]} : heap[c].saved = c
      BY <2>1, <2>3 DEF Managed
  <2> QED
      BY <1>3, <2>3, <2>4
<1>4. CASE at[t] \in {"unbacked", "ended"}
    BY <1>1, <1>2, <1>4 DEF Sound, Tidy
<1> QED
    BY <1>3, <1>4
=============================================================================
