----------------------------- MODULE ScopeGuard -----------------------------
(***************************************************************************)
(* ScopeGuard (helpers/scopedguards.hpp, and once more linux/utils.hpp):   *)
(* objects that call a clean-up when they are destroyed, made by           *)
(* make_scope_guard, moved into other objects and released by one thread.  *)
(* Objects are destroyed in any order: by the end of a scope, by an        *)
(* exception that unwinds it, or by the owner of the object moved to.      *)
(***************************************************************************)
CONSTANTS Guard,     \* objects, each built and destroyed once
          Cleanup,   \* callables, each given to one guard
          NoCleanup  \* what a callable that was moved away has become

VARIABLES
    alive,     \* the objects that are built and not destroyed
    gone,      \* those that are destroyed
    active_,   \* of the objects alive, those with active_ set
    func_,     \* the callable of each object
    made,      \* history: the callables that a guard was made for
    released,  \* history: those whose guard the program released
    called,    \* history: the callables called
    again      \* history: those called when they had been called or released

objVars  == <<alive, gone, active_, func_>>
histVars == <<made, released, called, again>>
guardVars == <<objVars, histVars>>

GuardInit ==
    /\ alive = {} /\ gone = {} /\ active_ = {}
    /\ func_ \in [Guard -> {NoCleanup}]
    /\ made = {} /\ released = {} /\ called = {} /\ again = {}

\* make_scope_guard.  (If the callable throws while it is moved or bound, there
\* is no guard, and it is the caller who knows.)
Make(g, c) ==
    /\ g \notin alive \cup gone /\ c \in Cleanup \ made
    /\ alive' = alive \cup {g} /\ active_' = active_ \cup {g}
    /\ func_' = [func_ EXCEPT ![g] = c]
    /\ made' = made \cup {c}
    /\ UNCHANGED <<gone, released, called, again>>

\* Mutant of Disarmed: the other guard is not released.
StillArmed(guards, other) == guards

\* other.release()
Disarmed(guards, other) == guards \ {other}

\* The move constructor: g takes over from other.  A callable whose move is a
\* copy stays in other as well.  (One that throws ends the program here.)
Move(other, g) ==
    /\ other \in alive /\ g \notin alive \cup gone
    /\ alive' = alive \cup {g}
    /\ active_' = Disarmed(active_ \cup {h \in {g} : other \in active_}, other)
    /\ \E left \in {func_[other], NoCleanup} :
          func_' = [func_ EXCEPT ![g] = func_[other], ![other] = left]
    /\ UNCHANGED <<gone, histVars>>

Release(g) ==
    /\ g \in alive
    /\ active_' = active_ \ {g}
    /\ released' = released \cup {c \in {func_[g]} : g \in active_}
    /\ UNCHANGED <<alive, gone, func_, made, called, again>>

\* The destructor; what the callable throws is swallowed.
Destroy(g) ==
    /\ g \in alive
    /\ alive' = alive \ {g} /\ gone' = gone \cup {g} /\ active_' = active_ \ {g}
    /\ called' = called \cup {c \in {func_[g]} : g \in active_}
    /\ again' = again \cup {c \in {func_[g]} : g \in active_ /\ c \in called \cup released}
    /\ UNCHANGED <<func_, made, released>>

GuardNext ==
    \/ \E g \in Guard, c \in Cleanup : Make(g, c)
    \/ \E other, g \in Guard : Move(other, g)
    \/ \E g \in Guard : Release(g)
    \/ \E g \in Guard : Destroy(g)

GuardSpec == GuardInit /\ [][GuardNext]_guardVars

-----------------------------------------------------------------------------
(* Properties                                                              *)

GuardTypeOK ==
    /\ alive \subseteq Guard /\ gone \subseteq Guard /\ alive \cap gone = {}
    /\ active_ \subseteq alive
    /\ func_ \in [Guard -> Cleanup \cup {NoCleanup}]
    /\ made \subseteq Cleanup
    /\ released \subseteq made /\ called \subseteq made /\ again \subseteq called

\* However guards are moved, a clean-up is called once: never again, never when
\* it was released, and never forgotten while nobody released it.
CalledOnce ==
    /\ again = {} /\ called \cap released = {}
    /\ \A c \in made \ (called \cup released) : \E g \in active_ : func_[g] = c

=============================================================================
