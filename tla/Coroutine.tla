------------------------------ MODULE Coroutine ------------------------------
(***************************************************************************)
(* Coroutines on POSIX contexts (src/src/platform/coroutine_posix.hpp).    *)
(* Each thread has a manager of its own, found by a key which all threads  *)
(* share and the first of them creates; apart from that key a call of a    *)
(* thread meets no other thread and is one step, except the shutdown,      *)
(* which frees the stack it runs on.  A context is a piece of memory: it   *)
(* is used again after it was freed, by whoever asks next.                 *)
(***************************************************************************)
EXTENDS Naturals, FiniteSets, FiniteSetsExt

CONSTANTS
    Threads,
    Contexts,   \* bound: the slots there is memory for, numbers
    None

Keys == 1 .. Cardinality(Threads)

\* A manager: the main coroutine, the current one, and all of them.
Managers == [main : Contexts, current : Contexts, slots : SUBSET Contexts]

\* The null pointer is no thread, no context and no manager.
NoneIsNull ==
    /\ Contexts \subseteq Nat
    /\ None \notin Threads \union Contexts \union Managers

VARIABLES
    inited,     \* _g_tls_inited
    key,        \* _g_tls, 0 before it is created
    created,    \* the keys there are
    specific,   \* the manager of a thread under a key, or None
    heap,       \* a context: the thread it belongs to, or None, and the coroutine saved in it
    running,    \* the coroutine a thread executes, by the context it was made with
    at          \* where a thread is

coroutineVars == <<inited, key, created, specific, heap, running, at>>

NoContext == [by |-> None, saved |-> None]

Init ==
    /\ inited = FALSE
    /\ key = 0
    /\ created = 0
    /\ specific = [t \in Threads |-> [k \in Keys |-> None]]
    /\ heap = [c \in Contexts |-> NoContext]
    /\ running = [t \in Threads |-> None]
    /\ at = [t \in Threads |-> "normal"]

\* What pthread_getspecific gives a thread.
Manager(t) == specific[t][key]
FreeContexts == {c \in Contexts : heap[c].by = None}
New == Min(FreeContexts)
Goes(t, where) == at' = [at EXCEPT ![t] = where]
Manages(t, m) == specific' = [specific EXCEPT ![t][key] = m]

-----------------------------------------------------------------------------
(* InitThreadForCoroutines *)

\* ENSURE_TLS_INIT looks at a flag that nothing protects.
LookAtFlag(t) ==
    /\ at[t] \in {"normal", "in"}
    /\ Goes(t, IF inited THEN "install" ELSE "create")
    /\ UNCHANGED <<inited, key, created, specific, heap, running>>

CreateKey(t) ==
    /\ at[t] = "create"
    /\ created' = created + 1
    /\ key' = created + 1
    /\ Goes(t, "flag")
    /\ UNCHANGED <<inited, specific, heap, running>>

SetFlag(t) ==
    /\ at[t] = "flag"
    /\ inited' = TRUE
    /\ Goes(t, "install")
    /\ UNCHANGED <<key, created, specific, heap, running>>

\* The thread becomes the main coroutine, once.  Without a context it stays what it was.
Install(t) ==
    /\ at[t] = "install"
    /\ \/ /\ Manager(t) # None
          /\ Goes(t, "in")
          /\ UNCHANGED <<heap, running, specific>>
       \/ /\ Manager(t) = None /\ FreeContexts # {}
          /\ Goes(t, "in")
          /\ heap' = [heap EXCEPT ![New] = [by |-> t, saved |-> None]]
          /\ running' = [running EXCEPT ![t] = New]
          /\ Manages(t, [main |-> New, current |-> New, slots |-> {New}])
       \/ /\ Manager(t) = None /\ FreeContexts = {}
          /\ Goes(t, IF running[t] = None THEN "normal" ELSE "in")
          /\ UNCHANGED <<heap, running, specific>>
    /\ UNCHANGED <<inited, key, created>>

-----------------------------------------------------------------------------
CreateCoroutine(t) ==
    /\ at[t] = "in"
    /\ Manager(t) # None
    /\ FreeContexts # {}
    /\ heap' = [heap EXCEPT ![New] = [by |-> t, saved |-> New]]
    /\ Manages(t, [Manager(t) EXCEPT !.slots = @ \union {New}])
    /\ UNCHANGED <<inited, key, created, running, at>>

\* swapcontext saves what runs and goes on with what was saved.
Swap(t, from, to) ==
    /\ heap' = [heap EXCEPT ![from].saved = running[t], ![to].saved = None]
    /\ running' = [running EXCEPT ![t] = heap[to].saved]

\* Defect: the current context is noted by the one that comes back.
SwitchToCoroutine_NotedLate(t, c) ==
    LET m == Manager(t) IN
    /\ at[t] = "in"
    /\ heap[c].by = t
    /\ m # None
    /\ c # m.current /\ c \in m.slots
    /\ Swap(t, m.current, c)
    /\ UNCHANGED <<inited, key, created, specific, at>>

\* To a coroutine of this thread that was not deleted.
SwitchToCoroutine(t, c) ==
    LET m == Manager(t) IN
    /\ at[t] = "in"
    /\ heap[c].by = t
    /\ m # None
    /\ c # m.current /\ c \in m.slots
    /\ Manages(t, [m EXCEPT !.current = c])
    /\ Swap(t, m.current, c)
    /\ UNCHANGED <<inited, key, created, at>>

\* Defect: the slot is not erased.
DeleteOther_KeepsSlot(t, c) ==
    LET m == Manager(t) IN
    /\ at[t] = "in"
    /\ heap[c].by = t
    /\ m # None
    /\ c \notin {m.current, m.main} /\ c \in m.slots
    /\ heap' = [heap EXCEPT ![c] = NoContext]
    /\ UNCHANGED <<inited, key, created, specific, running, at>>

\* DeleteCoroutine of another coroutine than the main one.
DeleteOther(t, c) ==
    LET m == Manager(t) IN
    /\ at[t] = "in"
    /\ heap[c].by = t
    /\ m # None
    /\ c \notin {m.current, m.main} /\ c \in m.slots
    /\ heap' = [heap EXCEPT ![c] = NoContext]
    /\ Manages(t, [m EXCEPT !.slots = @ \ {c}])
    /\ UNCHANGED <<inited, key, created, running, at>>

\* DeleteCoroutine of the current one or of the main one: a full shutdown, which
\* leaves the current context to the last.
ShutDown(t) ==
    LET m == Manager(t) IN
    /\ at[t] = "in"
    /\ m # None
    /\ heap' = [c \in Contexts |-> IF c \in m.slots \ {m.current} THEN NoContext ELSE heap[c]]
    /\ Manages(t, None)
    /\ Goes(t, "exiting")
    /\ UNCHANGED <<inited, key, created, running>>

\* The current context and its stack; the thread is still on it.
FreeCurrent(t) ==
    /\ at[t] = "exiting"
    /\ heap' = [heap EXCEPT ![running[t]] = NoContext]
    /\ Goes(t, "unbacked")
    /\ UNCHANGED <<inited, key, created, specific, running>>

Exit(t) ==
    /\ at[t] = "unbacked"
    /\ running' = [running EXCEPT ![t] = None]
    /\ Goes(t, "ended")
    /\ UNCHANGED <<inited, key, created, specific, heap>>

IsMain(t) == Manager(t) = None \/ Manager(t).main = running[t]

\* A thread leaves run: the body of a subcoroutine returns, whose uc_link is 0, and
\* that ends the thread ("exited"), or the main one does.  Nothing is released.
Leave(t, where) ==
    /\ at[t] \in {"normal", "in"}
    /\ where = IF at[t] = "normal" \/ IsMain(t) THEN "returned" ELSE "exited"
    /\ running' = [running EXCEPT ![t] = None]
    /\ Goes(t, where)
    /\ UNCHANGED <<inited, key, created, specific, heap>>

CoroutineStep(t) ==
    \/ LookAtFlag(t) \/ CreateKey(t) \/ SetFlag(t) \/ Install(t)
    \/ CreateCoroutine(t) \/ ShutDown(t) \/ FreeCurrent(t)
    \/ \E c \in Contexts : SwitchToCoroutine(t, c) \/ DeleteOther(t, c)

Next == \E t \in Threads : CoroutineStep(t) \/ Exit(t) \/ Leave(t, "returned") \/ Leave(t, "exited")

Spec == Init /\ [][Next]_coroutineVars

-----------------------------------------------------------------------------
\* No two threads came to ENSURE_TLS_INIT before either had set the flag.
OneKey == created <= 1

\* Whoever asks GetCurrentCoroutine is told itself, and finds its slot: after any
\* sequence of switches, creations and deletions the context that is current is the
\* one whose coroutine runs, so a switch that comes back finds it as it left it (the
\* assertion behind swapcontext), and it was not freed.  A thread that initialized
\* itself is recognized.  Unless the key was created twice, or there was no memory.
CurrentIsRunning ==
    \A t \in Threads : OneKey /\ at[t] = "in" =>
      /\ Manager(t) # None
      /\ Manager(t).current = running[t]
      /\ Manager(t).current \in Manager(t).slots
      /\ heap[running[t]].by = t /\ heap[running[t]].saved = None

\* Nothing is freed that can be switched to, and nothing can be switched to that is
\* not found: the slots of a manager are the memory of its thread, each with the
\* coroutine that was made with it; a shutdown leaves nothing behind.
SlotsAreMemory ==
    \A t \in Threads :
      LET mine == {c \in Contexts : heap[c].by = t} IN
      /\ OneKey /\ at[t] = "in" =>
           /\ Manager(t).slots = mine
           /\ \A c \in mine \ {running[t]} : heap[c].saved = c
      /\ OneKey /\ at[t] \in {"unbacked", "ended"} => mine = {}
=============================================================================
