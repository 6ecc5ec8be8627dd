---------------------------- MODULE FsUtilProofs ----------------------------
(***************************************************************************)
(* Theorems about FsUtil, for every set of names and of patterns and any   *)
(* number of changes by others.                                            *)
(***************************************************************************)
EXTENDS FsUtil, SequenceTheorems, WellFoundedInduction, TLAPS

\* Which call is where, and what mkdir and mkdir_p have still to make.
Place ==
    /\ stage \in {"is_directory", "next"} => called \in Listing
    /\ stage = "exists" => called \in Listing \cup {"touch"}
    /\ stage \in {"opendir", "first"} => called \in Listing \cup {"removeDir"}
    /\ stage \in {"status", "parent", "make", "is_made"} => called \in {"mkdir", "mkdir_p"}
    /\ stage = "parent" => todo = <<arg>>
    /\ stage \in {"make", "is_made"} => todo \in {<<arg>>, <<Dir, arg>>}
    /\ stage \in {"create", "utime"} => called = "touch"
    /\ stage = "remove" => called \in {"removeFile", "removeDir"}

TypeInv == TreeTypeOK /\ Place

\* A change of one path to another kind keeps the types of the tree and of the
\* stream, if the path has a parent and a directory goes only when it is empty.
LEMMA ChangeTypes ==
    ASSUME TreeTypeOK, NEW p \in Path, NEW k \in Kinds, Change(p, k),
           k # "none" => HasParent(p) /\ node[p] = "none", k = "none" => Empty(p)
    PROVE  /\ node' \in [Path -> Kinds]
           /\ \A n \in Name : node'[n] # "none" => node'[Dir] = "dir"
           /\ \A q \in Path \ {p} : node'[q] = node[q]
           /\ node'[p] = k
           /\ must' \subseteq Name \X {"file", "dir"}
           /\ may' \subseteq Name \X {"file", "dir"}
           /\ live' \in BOOLEAN /\ (live' => node'[Dir] = "dir")
           /\ was' \in [Path -> SUBSET Kinds]
  <1>1. Dir \notin Name /\ Path = Name \cup {Dir} /\ Kinds = {"none", "file", "dir"}
    BY NameAssumption DEF Path, Kinds
  <1>2. /\ node' \in [Path -> Kinds] /\ node'[p] = k
        /\ \A q \in Path \ {p} : node'[q] = node[q]
    BY DEF Change, TreeTypeOK
  <1>3. \A n \in Name : node'[n] # "none" => node'[Dir] = "dir"
    BY <1>1, <1>2 DEF TreeTypeOK, HasParent, Empty
  <1>4. live' \in BOOLEAN /\ (live' => node'[Dir] = "dir")
    BY <1>1, <1>2 DEF Change, TreeTypeOK
  <1>5. must' \subseteq Name \X {"file", "dir"}
    BY DEF Change, TreeTypeOK
  <1>6. live /\ k # "none" => <<p, k>> \in Name \X {"file", "dir"}
    BY <1>1 DEF TreeTypeOK
  <1>7. may' \subseteq Name \X {"file", "dir"}
    BY <1>6 DEF Change, TreeTypeOK
  <1>8. was' \in [Path -> SUBSET Kinds]
    BY DEF Change, TreeTypeOK
  <1> QED
    BY <1>2, <1>3, <1>4, <1>5, <1>7, <1>8

\* The program and the tree as they are at first.
LEMMA InitTypes == TreeInit => TypeInv
  <1> SUFFICES ASSUME TreeInit PROVE TypeInv
    OBVIOUS
  <1>k. Dir \in Path /\ Dir \notin Name /\ Kinds = {"none", "file", "dir"}
    BY NameAssumption DEF Path, Kinds
  <1>1. node \in [Path -> Kinds]
    BY <1>k DEF TreeInit
  <1>2. was \in [Path -> SUBSET Kinds]
    BY <1>k DEF TreeInit
  <1>3. \A n \in Name : node[n] = "none"
    BY DEF TreeInit, Path
  <1>4. must = {} /\ may = {} /\ live = FALSE /\ todo = <<>> /\ list = <<>>
    BY DEF TreeInit
  <1>5. called = "removeDir" /\ called \in Changing /\ called \notin Listing /\ arg = Dir
    BY DEF TreeInit, Changing, Listing
  <1>6. changes \in 0..Changes
    BY NameAssumption DEF TreeInit
  <1>7. stage = "idle" /\ outcome = "ok" /\ data = {}
    BY DEF TreeInit
  <1>s. <<>> \in Seq(Path) /\ <<>> \in Seq(Name)
    OBVIOUS
  <1>a. arg \in IF called \in Listing THEN Pattern ELSE Path
    BY <1>k, <1>5
  <1>8. TreeTypeOK
    BY <1>s, <1>a, <1>k, <1>1, <1>2, <1>3, <1>4, <1>5, <1>6, <1>7 DEF TreeTypeOK
  <1>9. Place
    BY <1>7 DEF Place
  <1> QED
    BY <1>8, <1>9 DEF TypeInv

\* A call that returns keeps the types; where it is then, says nothing.
LEMMA ReturnTypes ==
    ASSUME TypeInv, NEW r \in {"ok", "error", "throws", "terminates"}, Leave(r), Aside
    PROVE  TypeInv'
  <1>0. todo' \in Seq(Path)
    BY DEF Leave
  <1>1. TreeTypeOK'
    BY <1>0 DEF TypeInv, TreeTypeOK, Leave, Aside, treeVars, argVars
  <1>2. Place'
    BY DEF Leave, Place
  <1> QED
    BY <1>1, <1>2 DEF TypeInv

\* A call that only goes on to another label keeps the types.
LEMMA GotoTypes ==
    ASSUME TypeInv, Aside,
           NEW label \in {"is_directory", "opendir", "make", "is_made", "create", "utime"},
           Goto(label)
    PROVE  TreeTypeOK'
  BY DEF TypeInv, TreeTypeOK, Goto, Aside, treeVars, argVars, locals, streamVars

\* The directory that mkdir(2) is asked for.
LEMMA MadePath ==
    ASSUME TypeInv, stage \in {"make", "is_made"}
    PROVE  Head(todo) \in Path /\ (Len(todo) = 1 => Head(todo) = arg)
  <1>1. called \in {"mkdir", "mkdir_p"} /\ todo \in {<<arg>>, <<Dir, arg>>}
    BY DEF TypeInv, Place
  <1>2. arg \in Path /\ Dir \in Path
    BY <1>1 DEF TypeInv, TreeTypeOK, Listing, Path
  <1> QED
    BY <1>1, <1>2

\* One of the directories to be made is there: the call returns or goes on with
\* the other.
LEMMA MadeTypes ==
    ASSUME TypeInv, stage \in {"make", "is_made"}, Made, UNCHANGED argVars
    PROVE  /\ Place'
           /\ stage' \in {"idle", "make"} /\ todo' \in Seq(Path)
           /\ outcome' \in {"ok", "error", "throws", "terminates"}
  <1>1. called \in {"mkdir", "mkdir_p"} /\ todo \in {<<arg>>, <<Dir, arg>>}
    BY DEF TypeInv, Place
  <1>2. arg \in Path
    BY <1>1 DEF TypeInv, TreeTypeOK, Listing
  <1>3. CASE Len(todo) = 1
    <2>1. Leave("ok")
      BY <1>3 DEF Made
    <2> QED
      BY <2>1 DEF Leave, Place
  <1>4. CASE Len(todo) # 1
    <2>1. todo = <<Dir, arg>>
      BY <1>1, <1>4
    <2>2. Tail(todo) = <<arg>>
      BY <2>1
    <2>3. stage' = "make" /\ todo' = <<arg>> /\ outcome' = outcome
      BY <2>2, <1>4 DEF Made
    <2> QED
      BY <2>3, <1>1, <1>2 DEF Place, argVars, TypeInv, TreeTypeOK
  <1> QED
    BY <1>3, <1>4

\* Every step keeps the types and the places.
LEMMA StepTypes == TypeInv /\ [TreeNext]_fsVars => TypeInv'
  <1> SUFFICES ASSUME TypeInv, [TreeNext]_fsVars
               PROVE  TypeInv'
    OBVIOUS
  <1>t. TreeTypeOK /\ Place
    BY DEF TypeInv
  <1>k. Dir \in Path /\ Dir \notin Name /\ Path = Name \cup {Dir} /\ Kinds = {"none", "file", "dir"}
    BY NameAssumption DEF Path, Kinds
  <1>1. ASSUME CallAny PROVE TypeInv'
    <2>1. PICK f \in Listing \cup Changing, a \in Pattern \cup Path : Invoke(f, a) /\ a \in IF f \in Listing THEN Pattern ELSE Path
      BY <1>1, <1>k DEF CallAny, Listing, Changing
    <2>2. TreeTypeOK'
      <3>1. was' \in [Path -> SUBSET Kinds]
        BY <2>1, <1>t DEF Invoke, TreeTypeOK
      <3>2. todo' \in Seq(Path)
        <4>1. f = "mkdir" => a \in Path
          BY <2>1 DEF Listing
        <4> QED
          BY <2>1, <4>1 DEF Invoke
      <3>3. stage' \in {"exists", "make", "status", "remove", "opendir"}
        BY <2>1 DEF Invoke, Entry, Listing, Changing
      <3>4. list' \in Seq(Name)
        BY <2>1 DEF Invoke
      <3> QED
        BY <2>1, <3>1, <3>2, <3>3, <3>4, <1>t DEF Invoke, TreeTypeOK, streamVars
    <2>3. Place'
      BY <2>1 DEF Invoke, Entry, Place, Listing, Changing
    <2> QED
      BY <2>2, <2>3 DEF TypeInv
  <1>2. ASSUME HasDirectory PROVE TypeInv'
    <2>1. CASE Leave("ok")
      BY <2>1, <1>2, ReturnTypes DEF HasDirectory
    <2>2. ASSUME NEW l \in {"is_directory", "opendir"}, Goto(l), called \in Listing, Aside PROVE TypeInv'
      <3>1. TreeTypeOK'
        BY <2>2, GotoTypes
      <3>2. Place'
        BY <2>2 DEF Place, Goto, Aside, argVars
      <3> QED
        BY <3>1, <3>2 DEF TypeInv
    <2> QED
      BY <2>1, <2>2, <1>2 DEF HasDirectory
  <1>3. ASSUME OpenDir PROVE TypeInv'
    BY <1>3, <1>t, <1>k DEF OpenDir, Aside,
       treeVars, argVars, streamVars, TypeInv, TreeTypeOK, Place, Listing, Changing
  <1>4. ASSUME OpenFails \/ BadPattern PROVE TypeInv'
    BY <1>4, ReturnTypes DEF OpenFails, BadPattern
  <1>5. ASSUME IterateFails PROVE TypeInv'
    BY <1>5, ReturnTypes DEF IterateFails
  <1>6. ASSUME ListEntry PROVE TypeInv'
    BY <1>6, <1>t, <1>k DEF ListEntry,
       treeVars, argVars, streamVars, TypeInv, TreeTypeOK, Place, Listing, Changing
  <1>7. ASSUME ListReturn PROVE TypeInv'
    BY <1>7, ReturnTypes DEF ListReturn
  <1>8. ASSUME MkdirStatus PROVE TypeInv'
    <2>1. CASE Leave("ok") \/ Leave("error")
      BY <2>1, <1>8, ReturnTypes DEF MkdirStatus
    <2>2. ASSUME ~Leave("ok"), ~Leave("error") PROVE TypeInv'
      <3>1. /\ stage' = IF arg = Dir THEN "make" ELSE "parent"
            /\ todo' = <<arg>>
            /\ UNCHANGED <<streamVars, outcome>> /\ Aside /\ stage = "status"
        BY <2>2, <1>8 DEF MkdirStatus
      <3>2. called = "mkdir_p" \/ called = "mkdir"
        BY <3>1, <1>t DEF Place
      <3>3. arg \in Path
        BY <3>2, <1>t DEF TreeTypeOK, Listing
      <3>4. TreeTypeOK'
        BY <3>1, <3>3, <1>t DEF TreeTypeOK, Aside, treeVars, argVars, streamVars
      <3>5. Place'
        BY <3>1, <3>2 DEF Place, Aside, argVars
      <3> QED
        BY <3>4, <3>5 DEF TypeInv
    <2> QED
      BY <2>1, <2>2
  <1>9. ASSUME MkdirParent PROVE TypeInv'
    <2>1. CASE Leave("error")
      BY <2>1, <1>9, ReturnTypes DEF MkdirParent
    <2>0. /\ stage = "parent" /\ Aside /\ todo = <<arg>>
          /\ called = "mkdir_p" \/ called = "mkdir"
      BY <1>9, <1>t DEF MkdirParent, Place
    <2>2. CASE Goto("make")
      <3>1. TreeTypeOK'
        BY <2>0, <2>2, GotoTypes
      <3>2. Place'
        BY <2>0, <2>2 DEF Place, Goto, Aside, locals, argVars
      <3> QED
        BY <3>1, <3>2 DEF TypeInv
    <2>3. ASSUME ~Leave("error"), ~Goto("make") PROVE TypeInv'
      <3>1. /\ stage' = "make"
            /\ todo' = <<Dir, arg>>
            /\ UNCHANGED <<streamVars, outcome>>
        BY <2>3, <1>9 DEF MkdirParent
      <3>2. arg \in Path
        BY <2>0, <1>t DEF TreeTypeOK, Listing
      <3>3. todo' = <<Dir, arg>> /\ todo' \in Seq(Path)
        BY <3>1, <3>2, <1>k
      <3>4. TreeTypeOK'
        BY <2>0, <3>1, <3>3, <1>t DEF TreeTypeOK, Aside, treeVars, argVars, streamVars
      <3>5. Place'
        BY <2>0, <3>1, <3>3 DEF Place, Aside, argVars
      <3> QED
        BY <3>4, <3>5 DEF TypeInv
    <2> QED
      BY <2>1, <2>2, <2>3
  <1>10. ASSUME MakeDir PROVE TypeInv'
    <2>1. stage = "make" /\ Made /\ UNCHANGED <<data, argVars, list, changes>>
      BY <1>10 DEF MakeDir
    <2>2. /\ Place' /\ stage' \in {"idle", "make"} /\ todo' \in Seq(Path)
          /\ outcome' \in {"ok", "error", "throws", "terminates"}
      BY <2>1, MadeTypes
    <2> DEFINE p == Head(todo)
    <2>3. p \in Path
      BY <2>1, MadePath
    <2>4. Change(p, "dir") /\ node[p] = "none" /\ HasParent(p)
      BY <1>10 DEF MakeDir
    <2> HIDE DEF p
    <2>5. /\ node' \in [Path -> Kinds]
          /\ \A n \in Name : node'[n] # "none" => node'[Dir] = "dir"
          /\ \A q \in Path \ {p} : node'[q] = node[q]
          /\ must' \subseteq Name \X {"file", "dir"} /\ may' \subseteq Name \X {"file", "dir"}
          /\ live' \in BOOLEAN /\ (live' => node'[Dir] = "dir")
          /\ was' \in [Path -> SUBSET Kinds]
      BY <2>3, <2>4, <1>t, <1>k, ChangeTypes
    <2>6. data' \subseteq {q \in Path : node'[q] = "file"}
      BY <2>1, <2>4, <2>5, <1>t DEF TreeTypeOK
    <2>7. TreeTypeOK'
      BY <2>1, <2>2, <2>5, <2>6, <1>t DEF TreeTypeOK, argVars
    <2> QED
      BY <2>2, <2>7 DEF TypeInv
  <1>11. ASSUME MakeDirExists PROVE TypeInv'
    <2>1. stage \in {"make", "is_made"} /\ Aside
      BY <1>11 DEF MakeDirExists
    <2>2. CASE Goto("is_made")
      <3>1. TreeTypeOK'
        BY <2>1, <2>2, GotoTypes
      <3>2. Place'
        BY <2>1, <2>2, <1>t DEF Place, Goto, Aside, locals, argVars
      <3> QED
        BY <3>1, <3>2 DEF TypeInv
    <2>3. CASE Made
      <3>1. UNCHANGED argVars
        BY <2>1 DEF Aside
      <3>2. /\ Place' /\ stage' \in {"idle", "make"} /\ todo' \in Seq(Path)
            /\ outcome' \in {"ok", "error", "throws", "terminates"}
        BY <2>1, <2>3, <3>1, MadeTypes
      <3>3. must' \subseteq must /\ may' \subseteq may /\ live' \in {live, FALSE}
        BY <2>3, <1>t DEF Made, Leave, streamVars
      <3>4. must' \subseteq Name \X {"file", "dir"} /\ may' \subseteq Name \X {"file", "dir"}
        BY <3>3, <1>t DEF TreeTypeOK
      <3>5. live' \in BOOLEAN /\ (live' => node'[Dir] = "dir")
        <4>1. live' = live \/ live' = FALSE
          BY <3>3
        <4>2. node' = node /\ live \in BOOLEAN /\ (live => node[Dir] = "dir")
          BY <2>1, <1>t DEF TreeTypeOK, Aside, treeVars
        <4>3. CASE live' = live
          BY <4>2, <4>3
        <4>4. CASE live' = FALSE
          BY <4>4
        <4> QED
          BY <4>1, <4>3, <4>4
      <3>6. TreeTypeOK'
        <4>1. /\ node' = node /\ data' = data /\ was' = was /\ changes' = changes
              /\ called' = called /\ arg' = arg /\ list' = list
          BY <2>1 DEF Aside, argVars, treeVars
        <4> QED
          BY <4>1, <3>2, <3>4, <3>5, <1>t DEF TreeTypeOK
      <3> QED
        BY <3>2, <3>6 DEF TypeInv
    <2> QED
      BY <2>2, <2>3, <1>11 DEF MakeDirExists
  <1>12. ASSUME MakeDirFails PROVE TypeInv'
    BY <1>12, ReturnTypes DEF MakeDirFails
  <1>13. ASSUME TouchExists PROVE TypeInv'
    <2>1. PICK l \in {"create", "utime"} : Goto(l)
      BY <1>13 DEF TouchExists
    <2>2. TreeTypeOK'
      BY <2>1, <1>13, GotoTypes DEF TouchExists
    <2>3. Place'
      BY <2>1, <1>13 DEF TouchExists, Place, Goto, Aside, argVars
    <2> QED
      BY <2>2, <2>3 DEF TypeInv
  <1>14. ASSUME TouchCreate PROVE TypeInv'
    <2>1. /\ stage = "create" /\ Leave("ok") /\ data' = data \ {arg}
          /\ UNCHANGED <<argVars, list, changes>>
      BY <1>14 DEF TouchCreate
    <2>2. arg \in Path
      BY <2>1, <1>t DEF Place, TreeTypeOK, Listing
    <2>3. /\ node' \in [Path -> Kinds]
          /\ \A n \in Name : node'[n] # "none" => node'[Dir] = "dir"
          /\ \A q \in Path \ {arg} : node'[q] = node[q]
          /\ was' \in [Path -> SUBSET Kinds]
      <3>1. CASE node[arg] = "none"
        <4>1. Change(arg, "file") /\ HasParent(arg)
          BY <3>1, <1>14 DEF TouchCreate
        <4> QED
          BY <4>1, <3>1, <2>2, <1>t, <1>k, ChangeTypes
      <3>2. CASE node[arg] # "none"
        BY <3>2, <1>14, <1>t DEF TouchCreate, TreeTypeOK
      <3> QED
        BY <3>1, <3>2
    <2>r. todo' \in Seq(Path) /\ must' = {} /\ may' = {} /\ live' = FALSE
      BY <2>1 DEF Leave
    <2>d. data' \subseteq {q \in Path : node'[q] = "file"}
      BY <2>1, <2>2, <2>3, <1>t DEF TreeTypeOK
    <2>4. TreeTypeOK'
      BY <2>1, <2>3, <2>r, <2>d, <1>t DEF TreeTypeOK, Leave, argVars
    <2>5. Place'
      BY <2>1 DEF Leave, Place
    <2> QED
      BY <2>4, <2>5 DEF TypeInv
  <1>15. ASSUME TouchCreateFails PROVE TypeInv'
    BY <1>15, ReturnTypes DEF TouchCreateFails, OpenResult
  <1>16. ASSUME TouchTime PROVE TypeInv'
    BY <1>16, ReturnTypes DEF TouchTime
  <1>17. ASSUME RemovePath PROVE TypeInv'
    <2>1. /\ stage = "remove" /\ Leave("ok") /\ data' = data \ {arg} /\ Empty(arg)
          /\ UNCHANGED <<argVars, list, changes>>
      BY <1>17 DEF RemovePath
    <2>2. arg \in Path
      BY <2>1, <1>t DEF Place, TreeTypeOK, Listing
    <2>3. /\ node' \in [Path -> Kinds]
          /\ \A n \in Name : node'[n] # "none" => node'[Dir] = "dir"
          /\ \A q \in Path \ {arg} : node'[q] = node[q]
          /\ was' \in [Path -> SUBSET Kinds]
      <3>1. CASE node[arg] # "none"
        <4>1. Change(arg, "none")
          BY <3>1, <1>17 DEF RemovePath
        <4> QED
          BY <4>1, <2>1, <2>2, <1>t, <1>k, ChangeTypes
      <3>2. CASE node[arg] = "none"
        BY <3>2, <1>17, <1>t DEF RemovePath, TreeTypeOK
      <3> QED
        BY <3>1, <3>2
    <2>r. todo' \in Seq(Path) /\ must' = {} /\ may' = {} /\ live' = FALSE
      BY <2>1 DEF Leave
    <2>d. data' \subseteq {q \in Path : node'[q] = "file"}
      BY <2>1, <2>2, <2>3, <1>t DEF TreeTypeOK
    <2>4. TreeTypeOK'
      BY <2>1, <2>3, <2>r, <2>d, <1>t DEF TreeTypeOK, Leave, argVars
    <2>5. Place'
      BY <2>1 DEF Leave, Place
    <2> QED
      BY <2>4, <2>5 DEF TypeInv
  <1>18. ASSUME RemoveFails PROVE TypeInv'
    BY <1>18, ReturnTypes DEF RemoveFails
  <1>19. ASSUME RemoveEntry PROVE TypeInv'
    BY <1>19, <1>t, <1>k DEF RemoveEntry,
       treeVars, argVars, locals, streamVars, TypeInv, TreeTypeOK, Place, Listing, Changing
  <1>20. ASSUME RemoveLast PROVE TypeInv'
    <2>1. TreeTypeOK'
      BY <1>20, <1>t DEF RemoveLast, TreeTypeOK, Aside, treeVars, argVars
    <2>2. Place'
      BY <1>20 DEF RemoveLast, Place, Aside, argVars
    <2> QED
      BY <2>1, <2>2 DEF TypeInv
  <1>21. ASSUME NEW p \in Path, NEW k \in {"file", "dir"}, OthersCreate(p, k) PROVE TypeInv'
    <2>1. Change(p, k) /\ node[p] = "none" /\ HasParent(p) /\ Others
      BY <1>21 DEF OthersCreate
    <2>2. /\ node' \in [Path -> Kinds] /\ node'[p] = k
          /\ \A n \in Name : node'[n] # "none" => node'[Dir] = "dir"
          /\ \A q \in Path \ {p} : node'[q] = node[q]
          /\ must' \subseteq Name \X {"file", "dir"} /\ may' \subseteq Name \X {"file", "dir"}
          /\ live' \in BOOLEAN /\ (live' => node'[Dir] = "dir")
          /\ was' \in [Path -> SUBSET Kinds]
      BY <2>1, <1>t, <1>k, ChangeTypes
    <2>3. data' \subseteq {q \in Path : node'[q] = "file"}
      BY <2>1, <2>2, <1>21, <1>t DEF TreeTypeOK, OthersCreate
    <2>4. changes' \in 0..Changes
      BY <2>1, <1>t, NameAssumption DEF Others, TreeTypeOK
    <2>5. TreeTypeOK'
      BY <2>1, <2>2, <2>3, <2>4, <1>t DEF TreeTypeOK, Others, argVars
    <2>6. Place'
      BY <2>1, <1>t DEF Place, Others, argVars
    <2> QED
      BY <2>5, <2>6 DEF TypeInv
  <1>22. ASSUME NEW p \in Path, OthersRemove(p) PROVE TypeInv'
    <2>1. Change(p, "none") /\ Empty(p) /\ Others
      BY <1>22 DEF OthersRemove
    <2>2. /\ node' \in [Path -> Kinds] /\ node'[p] = "none"
          /\ \A n \in Name : node'[n] # "none" => node'[Dir] = "dir"
          /\ \A q \in Path \ {p} : node'[q] = node[q]
          /\ must' \subseteq Name \X {"file", "dir"} /\ may' \subseteq Name \X {"file", "dir"}
          /\ live' \in BOOLEAN /\ (live' => node'[Dir] = "dir")
          /\ was' \in [Path -> SUBSET Kinds]
      BY <2>1, <1>t, <1>k, ChangeTypes
    <2>3. data' \subseteq {q \in Path : node'[q] = "file"}
      BY <2>2, <1>22, <1>t DEF TreeTypeOK, OthersRemove
    <2>4. changes' \in 0..Changes
      BY <2>1, <1>t, NameAssumption DEF Others, TreeTypeOK
    <2>5. TreeTypeOK'
      BY <2>1, <2>2, <2>3, <2>4, <1>t DEF TreeTypeOK, Others, argVars
    <2>6. Place'
      BY <2>1, <1>t DEF Place, Others, argVars
    <2> QED
      BY <2>5, <2>6 DEF TypeInv
  <1>23. ASSUME UNCHANGED fsVars PROVE TypeInv'
    BY <1>23, <1>t DEF fsVars, treeVars, argVars, locals, streamVars, TypeInv, TreeTypeOK, Place
  <1> QED
    BY <1>1, <1>2, <1>3, <1>4, <1>5, <1>6, <1>7, <1>8, <1>9, <1>10, <1>11, <1>12, <1>13,
       <1>14, <1>15, <1>16, <1>17, <1>18, <1>19, <1>20, <1>21, <1>22, <1>23
    DEF TreeNext, FsStep, OthersStep

\* The types hold in every state: in particular no file is outside the directory,
\* and an open stream is one of a directory that exists.
THEOREM TypeCorrect == TreeSpec => []TreeTypeOK
  <1>1. TypeInv => TreeTypeOK
    BY DEF TypeInv
  <1> QED
    BY <1>1, InitTypes, StepTypes, PTL DEF TreeSpec

-----------------------------------------------------------------------------
\* The steps of a call that leave the tree, the arguments and the list alone.
AsideStep ==
    \/ HasDirectory \/ BadPattern \/ OpenDir \/ OpenFails \/ IterateFails \/ ListReturn
    \/ MkdirStatus \/ MkdirParent \/ MakeDirExists \/ MakeDirFails
    \/ TouchExists \/ TouchCreateFails \/ TouchTime \/ RemoveFails \/ RemoveLast

LEMMA AsideFacts ==
    AsideStep => /\ stage # "idle" /\ node' = node /\ data' = data /\ was' = was
                 /\ called' = called /\ arg' = arg /\ list' = list
  BY DEF AsideStep, HasDirectory, BadPattern, OpenDir, OpenFails, IterateFails, ListReturn,
     MkdirStatus, MkdirParent, MakeDirExists, MakeDirFails, TouchExists,
     TouchCreateFails, TouchTime, RemoveFails, RemoveLast, Aside, treeVars, argVars

\* The other steps.
LEMMA Steps ==
    TreeNext => \/ CallAny \/ AsideStep
                \/ ListEntry \/ MakeDir \/ TouchCreate \/ RemovePath \/ RemoveEntry
                \/ \E p \in Path, k \in {"file", "dir"} : OthersCreate(p, k)
                \/ \E p \in Path : OthersRemove(p)
  BY DEF TreeNext, FsStep, OthersStep, AsideStep

\* While a call is under way, history has the kind each path is of.
Recorded == stage # "idle" => \A p \in Path : node[p] \in was[p]

\* What a change does to the history, and to the entries that were always there.
LEMMA ChangeHistory ==
    ASSUME TypeInv, Recorded, stage # "idle", NEW p \in Path, NEW k \in Kinds,
           Change(p, k), node[p] # k
    PROVE  /\ \A q \in Path : node'[q] \in was'[q] /\ was[q] \subseteq was'[q]
           /\ \A n \in Name, w \in Kinds : was'[n] = {w} =>
                 was[n] = {w} /\ (<<n, w>> \in must => <<n, w>> \in must')
  <1>1. /\ node \in [Path -> Kinds] /\ was \in [Path -> SUBSET Kinds]
        /\ Name \subseteq Path
    BY DEF TypeInv, TreeTypeOK, Path
  <1>2. /\ node' = [node EXCEPT ![p] = k]
        /\ was' = [was EXCEPT ![p] = @ \cup {k}]
        /\ must' = {e \in must : e[1] # p}
    BY DEF Change
  <1>3. \A q \in Path : node[q] \in was[q]
    BY DEF Recorded
  <1>4. \A q \in Path : node'[q] \in was'[q] /\ was[q] \subseteq was'[q]
    BY <1>1, <1>2, <1>3
  <1>5. ASSUME NEW n \in Name, NEW w \in Kinds, was'[n] = {w}
        PROVE  was[n] = {w} /\ (<<n, w>> \in must => <<n, w>> \in must')
    <2>1. n # p
      <3>1. SUFFICES ASSUME n = p PROVE FALSE
        OBVIOUS
      <3>2. k \in was'[p] /\ node[p] \in was'[p]
        BY <1>1, <1>2, <1>3
      <3> QED
        BY <3>1, <3>2, <1>5
    <2>2. was[n] = {w}
      BY <2>1, <1>1, <1>2, <1>5
    <2>3. <<n, w>>[1] = n
      OBVIOUS
    <2> QED
      BY <2>1, <2>2, <2>3, <1>2
  <1> QED
    BY <1>4, <1>5

\* A change by others between two calls leaves the history alone.
LEMMA IdleChange == ASSUME NEW p, NEW k, stage = "idle", Change(p, k) PROVE was' = was
  BY DEF Change

LEMMA StepRecorded == TypeInv /\ Recorded /\ [TreeNext]_fsVars => Recorded'
  <1> SUFFICES ASSUME TypeInv, Recorded, [TreeNext]_fsVars, stage' # "idle"
               PROVE  \A p \in Path : node'[p] \in was'[p]
    BY DEF Recorded
  <1>k. Kinds = {"none", "file", "dir"} /\ Name \subseteq Path
    BY DEF Kinds, Path
  <1>1. ASSUME CallAny PROVE \A p \in Path : node'[p] \in was'[p]
    BY <1>1 DEF CallAny, Invoke
  <1>2. ASSUME AsideStep PROVE \A p \in Path : node'[p] \in was'[p]
    BY <1>2, AsideFacts DEF Recorded
  <1>3. ASSUME ListEntry PROVE \A p \in Path : node'[p] \in was'[p]
    BY <1>3 DEF ListEntry, Recorded, treeVars
  <1>4. ASSUME MakeDir PROVE \A p \in Path : node'[p] \in was'[p]
    <2> DEFINE p == Head(todo)
    <2>1. stage = "make" /\ Change(p, "dir") /\ node[p] = "none"
      BY <1>4 DEF MakeDir
    <2>2. p \in Path
      BY <2>1, MadePath
    <2> HIDE DEF p
    <2> QED
      BY <2>1, <2>2, <1>k, ChangeHistory
  <1>5. ASSUME TouchCreate \/ RemovePath PROVE \A p \in Path : node'[p] \in was'[p]
    BY <1>5 DEF TouchCreate, RemovePath, Leave
  <1>6. ASSUME RemoveEntry PROVE \A p \in Path : node'[p] \in was'[p]
    <2>1. PICK e \in must \cup may :
            /\ node' = IF live THEN [node EXCEPT ![e[1]] = "none"] ELSE node
            /\ was' = IF live THEN [was EXCEPT ![e[1]] = @ \cup {"none"}] ELSE was
      BY <1>6 DEF RemoveEntry
    <2>2. stage # "idle"
      BY <1>6 DEF RemoveEntry
    <2> QED
      BY <2>1, <2>2 DEF Recorded, TypeInv, TreeTypeOK
  <1>7. ASSUME NEW p \in Path, NEW k \in {"file", "dir"}, OthersCreate(p, k)
        PROVE  \A q \in Path : node'[q] \in was'[q]
    <2>1. Change(p, k) /\ node[p] # k /\ stage # "idle"
      BY <1>7 DEF OthersCreate, Others
    <2> QED
      BY <2>1, <1>k, ChangeHistory
  <1>8. ASSUME NEW p \in Path, OthersRemove(p)
        PROVE  \A q \in Path : node'[q] \in was'[q]
    <2>1. Change(p, "none") /\ node[p] # "none" /\ stage # "idle"
      BY <1>8 DEF OthersRemove, Others
    <2> QED
      BY <2>1, <1>k, ChangeHistory
  <1>9. ASSUME UNCHANGED fsVars PROVE \A p \in Path : node'[p] \in was'[p]
    BY <1>9 DEF Recorded, fsVars, treeVars
  <1> QED
    BY <1>1, <1>2, <1>3, <1>4, <1>5, <1>6, <1>7, <1>8, <1>9, Steps

HistInv == TypeInv /\ Recorded

LEMMA InitHist == TreeInit => HistInv
  BY InitTypes DEF HistInv, Recorded, TreeInit

LEMMA StepHist == HistInv /\ [TreeNext]_fsVars => HistInv'
  BY StepTypes, StepRecorded DEF HistInv

\* Between two calls nobody touches what the last one was and gave.
LEMMA IdleStep ==
    ASSUME [TreeNext]_fsVars, stage = "idle", ~CallAny
    PROVE  /\ stage' = stage /\ called' = called /\ arg' = arg
           /\ was' = was /\ list' = list /\ outcome' = outcome
  <1>1. CASE UNCHANGED fsVars
    BY <1>1 DEF fsVars, treeVars, argVars
  <1>2. ~AsideStep /\ ~ListEntry /\ ~MakeDir /\ ~TouchCreate /\ ~RemovePath /\ ~RemoveEntry
    BY AsideFacts DEF ListEntry, MakeDir, TouchCreate, RemovePath, RemoveEntry
  <1>3. ASSUME NEW p \in Path, NEW k \in {"file", "dir"}, OthersCreate(p, k)
        PROVE  /\ stage' = stage /\ called' = called /\ arg' = arg
               /\ was' = was /\ list' = list /\ outcome' = outcome
    BY <1>3, IdleChange DEF OthersCreate, Others, argVars
  <1>4. ASSUME NEW p \in Path, OthersRemove(p)
        PROVE  /\ stage' = stage /\ called' = called /\ arg' = arg
               /\ was' = was /\ list' = list /\ outcome' = outcome
    BY <1>4, IdleChange DEF OthersRemove, Others, argVars
  <1> QED
    BY <1>1, <1>2, <1>3, <1>4, Steps

\* A new call starts somewhere behind the idle state, with an empty list.
LEMMA CallStarts ==
    CallAny => stage = "idle" /\ list' = <<>>
               /\ stage' \in {"exists", "make", "status", "remove", "opendir"}
  BY DEF CallAny, Invoke, Entry, Listing, Changing

\* During a call the arguments stay, and history only grows.
LEMMA BusyStep ==
    ASSUME HistInv, [TreeNext]_fsVars, stage # "idle"
    PROVE  called' = called /\ arg' = arg /\ \A q \in Path : was[q] \subseteq was'[q]
  <1> DEFINE Grows == called' = called /\ arg' = arg /\ \A q \in Path : was[q] \subseteq was'[q]
  <1>h. TypeInv /\ Recorded /\ Name \subseteq Path /\ Kinds = {"none", "file", "dir"}
    BY DEF HistInv, Path, Kinds
  <1>1. ASSUME UNCHANGED fsVars PROVE Grows
    BY <1>1 DEF fsVars, treeVars, argVars
  <1>2. ASSUME AsideStep PROVE Grows
    BY <1>2, AsideFacts
  <1>3. ASSUME ListEntry PROVE Grows
    BY <1>3 DEF ListEntry, treeVars, argVars
  <1>4. ASSUME MakeDir PROVE Grows
    BY <1>4, <1>h DEF MakeDir, Change, argVars, TypeInv, TreeTypeOK
  <1>5. ASSUME TouchCreate \/ RemovePath PROVE Grows
    BY <1>5, <1>h DEF TouchCreate, RemovePath, Change, argVars, TypeInv, TreeTypeOK
  <1>6. ASSUME RemoveEntry PROVE Grows
    <2>1. PICK e \in must \cup may :
            was' = IF live THEN [was EXCEPT ![e[1]] = @ \cup {"none"}] ELSE was
      BY <1>6 DEF RemoveEntry
    <2>2. called' = called /\ arg' = arg
      BY <1>6 DEF RemoveEntry, argVars
    <2> QED
      BY <2>1, <2>2, <1>h DEF TypeInv, TreeTypeOK
  <1>7. ASSUME NEW p \in Path, NEW k \in {"file", "dir"}, OthersCreate(p, k) PROVE Grows
    BY <1>7, <1>h DEF OthersCreate, Others, Change, argVars, TypeInv, TreeTypeOK
  <1>8. ASSUME NEW p \in Path, OthersRemove(p) PROVE Grows
    BY <1>8, <1>h DEF OthersRemove, Others, Change, argVars, TypeInv, TreeTypeOK
  <1>9. ~CallAny
    BY CallStarts
  <1> QED
    BY <1>1, <1>2, <1>3, <1>4, <1>5, <1>6, <1>7, <1>8, <1>9, Steps

-----------------------------------------------------------------------------
(* touch                                                                   *)

\* Where touch opens the file, there was none when it looked.
Absent == stage = "create" => "none" \in was[arg]

TouchInv == HistInv /\ Absent

LEMMA StepTouch == TouchInv /\ [TreeNext]_fsVars => TouchInv'
  <1> SUFFICES ASSUME HistInv, Absent, [TreeNext]_fsVars, stage' = "create"
               PROVE  "none" \in was'[arg']
    BY StepHist DEF TouchInv, Absent
  <1>1. ~CallAny /\ stage # "idle"
    BY CallStarts, IdleStep
  <1>2. called' = called /\ arg' = arg /\ \A q \in Path : was[q] \subseteq was'[q]
    BY <1>1, BusyStep
  <1>3. CASE stage = "create"
    <2>1. arg \in Path
      BY <1>3 DEF HistInv, TypeInv, TreeTypeOK, Place, Listing
    <2> QED
      BY <2>1, <1>2, <1>3 DEF Absent
  <1>4. CASE stage # "create"
    <2>1. TouchExists
      BY <1>1, <1>4 DEF TreeNext, FsStep, OthersStep, HasDirectory, BadPattern, OpenDir, OpenFails, ListEntry,
         IterateFails, ListReturn, MkdirStatus, MkdirParent, MakeDir, MakeDirExists, MakeDirFails,
         TouchCreate, TouchCreateFails, TouchTime, RemovePath, RemoveFails, RemoveEntry,
         RemoveLast, Made, Leave, Goto, OthersCreate, OthersRemove, Others, fsVars
    <2>2. node[arg] = "none" /\ called = "touch" /\ was' = was
      BY <2>1 DEF TouchExists, Goto, Aside, treeVars
    <2>3. arg \in Path
      BY <2>2 DEF HistInv, TypeInv, TreeTypeOK, Listing
    <2> QED
      BY <1>1, <1>2, <2>2, <2>3 DEF HistInv, Recorded
  <1> QED
    BY <1>3, <1>4

LEMMA TouchStep ==
    TouchInv /\ [TreeNext]_fsVars =>
        [\A p \in Path : (p \in data \ data' /\ node'[p] = "file") => "none" \in was[p]]_fsVars
  <1> SUFFICES ASSUME TouchInv, TreeNext,
                      NEW p \in Path, p \in data, p \notin data', node'[p] = "file"
               PROVE  "none" \in was[p]
    OBVIOUS
  <1>t. TypeInv /\ Absent /\ node \in [Path -> Kinds] /\ Name \subseteq Path
    BY DEF TouchInv, HistInv, TypeInv, TreeTypeOK, Path
  <1>1. CASE CallAny
    BY <1>1 DEF CallAny, Invoke
  <1>2. CASE AsideStep
    BY <1>2, AsideFacts
  <1>3. CASE ListEntry \/ MakeDir
    BY <1>3 DEF ListEntry, MakeDir, treeVars
  <1>4. CASE TouchCreate
    BY <1>4, <1>t DEF TouchCreate, Absent
  <1>5. CASE RemovePath
    <2>1. p = arg /\ node'[arg] = "file"
      BY <1>5 DEF RemovePath
    <2>2. node'[arg] = "none"
      BY <1>5, <1>t, <2>1 DEF RemovePath, Change
    <2> QED
      BY <2>1, <2>2
  <1>6. CASE RemoveEntry
    <2>1. PICK e \in must \cup may :
            /\ node' = IF live THEN [node EXCEPT ![e[1]] = "none"] ELSE node
            /\ data' = IF live THEN data \ {e[1]} ELSE data
      BY <1>6 DEF RemoveEntry
    <2>2. live /\ p = e[1]
      BY <2>1
    <2>3. node'[p] = "none"
      BY <2>1, <2>2, <1>t
    <2> QED
      BY <2>3
  <1>7. ASSUME NEW q \in Path, NEW k \in {"file", "dir"}, OthersCreate(q, k) PROVE FALSE
    BY <1>7 DEF OthersCreate
  <1>8. ASSUME NEW q \in Path, OthersRemove(q) PROVE FALSE
    BY <1>8, <1>t DEF OthersRemove, Change
  <1> QED
    BY <1>1, <1>2, <1>3, <1>4, <1>5, <1>6, <1>7, <1>8, Steps

\* touch empties no file that was there when it looked: only one that others
\* made between its exists() and its ofstream.
THEOREM TouchKeeps == TreeSpec => TouchKeepsData
  <1>1. TreeInit => TouchInv
    BY InitHist DEF TouchInv, Absent, TreeInit
  <1> QED
    BY <1>1, StepTouch, TouchStep, PTL DEF TreeSpec, TouchKeepsData

-----------------------------------------------------------------------------
(* What a 0 means                                                          *)

\* Where mkdir has just made, or found, the last directory of its stack.
LEMMA MadeReturns ==
    ASSUME TypeInv, stage \in {"make", "is_made"}, Made, stage' = "idle"
    PROVE  Head(todo) = arg
  BY MadePath DEF Made

\* A call that returns 0 in this step has done what it was to do.
LEMMA ReturnDone ==
    ASSUME HistInv, TreeNext, stage # "idle", stage' = "idle", called \notin Listing, outcome' = "ok"
    PROVE  Achieved'
  <1>h. TypeInv /\ Place /\ Kinds = {"none", "file", "dir"}
    BY DEF HistInv, TypeInv, Kinds
  <1>a. arg \in Path /\ node[arg] \in was[arg] /\ node[arg] \in {"none", "file", "dir"}
        /\ was \in [Path -> SUBSET Kinds]
    BY DEF HistInv, Recorded, TypeInv, TreeTypeOK, Kinds
  <1>b. called' = called /\ arg' = arg
    BY BusyStep
  <1>1. ~CallAny
    BY CallStarts
  <1>2. ASSUME HasDirectory \/ BadPattern \/ OpenFails \/ IterateFails \/ ListReturn PROVE Achieved'
    BY <1>2 DEF HasDirectory, BadPattern, OpenFails, IterateFails, ListReturn, Listing
  <1>3. ASSUME OpenDir \/ ListEntry \/ RemoveEntry \/ RemoveLast \/ TouchExists \/ MkdirParent PROVE Achieved'
    BY <1>3 DEF OpenDir, ListEntry, RemoveEntry, RemoveLast, TouchExists, MkdirParent, Goto, Leave
  <1>4. ASSUME MkdirStatus PROVE Achieved'
    <2>1. called \in {"mkdir", "mkdir_p"} /\ was' = was
      BY <1>4, <1>h DEF MkdirStatus, Place, Aside, treeVars
    <2>2. node[arg] = "dir"
      BY <1>4 DEF MkdirStatus, Leave
    <2> QED
      BY <2>1, <2>2, <1>a, <1>b DEF Achieved
  <1>5. ASSUME MakeDir PROVE Achieved'
    <2>1. stage = "make" /\ Made /\ Change(Head(todo), "dir")
      BY <1>5 DEF MakeDir
    <2>2. called \in {"mkdir", "mkdir_p"} /\ Head(todo) = arg
      BY <2>1, <1>h, MadeReturns DEF Place
    <2>3. was' = [was EXCEPT ![arg] = @ \cup {"dir"}]
      BY <2>1, <2>2 DEF Change
    <2> QED
      BY <2>2, <2>3, <1>a, <1>b DEF Achieved
  <1>6. ASSUME MakeDirExists PROVE Achieved'
    <2>1. stage = "is_made" /\ node[Head(todo)] = "dir" /\ Made /\ was' = was
      BY <1>6 DEF MakeDirExists, Goto, Aside, treeVars
    <2>2. called \in {"mkdir", "mkdir_p"} /\ Head(todo) = arg
      BY <2>1, <1>h, MadeReturns DEF Place
    <2> QED
      BY <2>1, <2>2, <1>a, <1>b DEF Achieved
  <1>7. ASSUME MakeDirFails \/ TouchCreateFails \/ RemoveFails PROVE Achieved'
    BY <1>7 DEF MakeDirFails, TouchCreateFails, RemoveFails, Leave, OpenResult
  <1>8. ASSUME TouchCreate PROVE Achieved'
    <2>1. called = "touch"
      BY <1>8, <1>h DEF TouchCreate, Place
    <2>2. "file" \in was'[arg]
      BY <1>8, <1>a DEF TouchCreate, Change
    <2> QED
      BY <2>1, <2>2, <1>b DEF Achieved
  <1>9. ASSUME TouchTime PROVE Achieved'
    <2>1. called = "touch" /\ node[arg] # "none" /\ was' = was
      BY <1>9, <1>h DEF TouchTime, Place, Leave, Aside, treeVars
    <2> QED
      BY <2>1, <1>a, <1>b DEF Achieved
  <1>10. ASSUME RemovePath PROVE Achieved'
    <2>1. called \in {"removeFile", "removeDir"}
      BY <1>10, <1>h DEF RemovePath, Place
    <2>2. "none" \in was'[arg]
      BY <1>10, <1>a DEF RemovePath, Change
    <2> QED
      BY <2>1, <2>2, <1>b DEF Achieved
  <1>11. ~OthersStep
    BY DEF OthersStep, OthersCreate, OthersRemove, Others
  <1> QED
    BY <1>1, <1>2, <1>3, <1>4, <1>5, <1>6, <1>7, <1>8, <1>9, <1>10, <1>11 DEF TreeNext, FsStep

LEMMA StepDone == HistInv /\ ZeroMeansDone /\ [TreeNext]_fsVars => ZeroMeansDone'
  <1> SUFFICES ASSUME HistInv, ZeroMeansDone, [TreeNext]_fsVars,
                      stage' = "idle", called' \notin Listing, outcome' = "ok"
               PROVE  ZeroMeansDone'
    BY DEF ZeroMeansDone
  <1>1. ~CallAny
    BY CallStarts
  <1>2. CASE stage = "idle"
    <2>1. called' = called /\ arg' = arg /\ was' = was /\ outcome' = outcome
      BY <1>1, <1>2, IdleStep
    <2> QED
      BY <2>1, <1>2 DEF ZeroMeansDone, Achieved
  <1>3. CASE stage # "idle"
    <2>1. called' = called /\ arg' = arg
      BY <1>3, BusyStep
    <2>2. TreeNext
      BY <1>3 DEF fsVars
    <2>3. Achieved'
      BY <2>1, <2>2, <1>3, ReturnDone
    <2> QED
      BY <2>3 DEF ZeroMeansDone
  <1> QED
    BY <1>2, <1>3

\* Whatever others do meanwhile, mkdir, touch and the removals return 0 only for
\* something that was so at some moment of the call.
THEOREM ZeroIsTrue == TreeSpec => []ZeroMeansDone
  <1>1. TreeInit => ZeroMeansDone
    <2>1. TreeInit => was[arg] = {"none"} /\ called = "removeDir"
      BY DEF TreeInit, Path
    <2> QED
      BY <2>1 DEF ZeroMeansDone, Achieved
  <1> QED
    BY <1>1, InitHist, StepHist, StepDone, PTL DEF TreeSpec

-----------------------------------------------------------------------------
(* Listings                                                                *)

\* A listing finds nothing before it reads.
Unlisted == (called \in Listing /\ stage \in {"exists", "is_directory", "opendir", "first"}) => list = <<>>

\* n was an entry of the kind wanted during the whole call so far.
Stayed(n) == Fits(n) /\ was[n] = {Wanted}

\* While it reads, such an entry is listed or still to come.
Pending ==
    (called \in Listing /\ stage \in {"first", "next"}) =>
        \A n \in Name : Stayed(n) => <<n, Wanted>> \in must \/ n \in ToSet(list)

ListInv == HistInv /\ Unlisted /\ Pending /\ ListingComplete

\* What is appended to a list is in it, and the rest stays.
LEMMA ToSetAppend ==
    ASSUME NEW S, NEW s \in Seq(S), NEW x \in S
    PROVE  x \in ToSet(Append(s, x)) /\ ToSet(s) \subseteq ToSet(Append(s, x))
  <1>1. Append(s, x) \in Seq(S) /\ Len(Append(s, x)) = Len(s) + 1
    OBVIOUS
  <1>2. Append(s, x)[Len(s) + 1] = x /\ \A i \in 1..Len(s) : Append(s, x)[i] = s[i]
    OBVIOUS
  <1> QED
    BY <1>1, <1>2 DEF ToSet

\* What the call asks for does not change.
LEMMA SameCall ==
    ASSUME called' = called, arg' = arg
    PROVE  Wanted' = Wanted /\ \A n \in Name : Fits(n)' = Fits(n)
  BY DEF Wanted, Fits, RegexMatch, Atom

LEMMA StepUnlisted == HistInv /\ Unlisted /\ [TreeNext]_fsVars => Unlisted'
  <1> SUFFICES ASSUME HistInv, Unlisted, [TreeNext]_fsVars, called' \in Listing,
                      stage' \in {"exists", "is_directory", "opendir", "first"}
               PROVE  list' = <<>>
    BY DEF Unlisted
  <1>1. CASE CallAny
    BY <1>1, CallStarts
  <1>2. CASE ~CallAny
    <2>1. stage # "idle"
      BY <1>2, IdleStep
    <2>2. called' = called /\ arg' = arg
      BY <2>1, BusyStep
    <2>3. CASE stage \in {"exists", "is_directory", "opendir", "first"}
      <3>1. list' = list
        BY <1>2, <2>3, Steps, AsideFacts DEF ListEntry, MakeDir, TouchCreate, RemovePath,
           RemoveEntry, OthersCreate, OthersRemove, Others, fsVars
      <3> QED
        BY <3>1, <2>2, <2>3 DEF Unlisted
    <2>4. CASE stage \notin {"exists", "is_directory", "opendir", "first"}
      BY <1>2, <2>4 DEF TreeNext, FsStep, OthersStep, HasDirectory, BadPattern, OpenDir, OpenFails, ListEntry,
         IterateFails, ListReturn, MkdirStatus, MkdirParent, MakeDir, MakeDirExists, MakeDirFails,
         TouchExists, TouchCreate, TouchCreateFails, TouchTime, RemovePath, RemoveFails,
         RemoveEntry, RemoveLast, Made, Leave, Goto, OthersCreate, OthersRemove, Others, fsVars
    <2> QED
      BY <2>3, <2>4
  <1> QED
    BY <1>1, <1>2

LEMMA StepPending == HistInv /\ Unlisted /\ Pending /\ [TreeNext]_fsVars => Pending'
  <1> SUFFICES ASSUME HistInv, Unlisted, Pending, [TreeNext]_fsVars, called' \in Listing,
                      stage' \in {"first", "next"},
                      NEW n \in Name, Fits(n)', was'[n] = {Wanted'}
               PROVE  <<n, Wanted'>> \in must' \/ n \in ToSet(list')
    BY DEF Pending, Stayed
  <1>1. ~CallAny /\ stage # "idle"
    BY CallStarts, IdleStep
  <1>2. called' = called /\ arg' = arg
    BY <1>1, BusyStep
  <1>3. Wanted' = Wanted /\ Fits(n)' = Fits(n)
    BY <1>2, SameCall
  <1>t. /\ TypeInv /\ Recorded /\ Name \subseteq Path /\ list \in Seq(Name)
        /\ Wanted \in {"dir", "file"} /\ Kinds = {"none", "file", "dir"}
    BY DEF HistInv, TypeInv, TreeTypeOK, Path, Wanted, Kinds
  <1>m. \A m \in Name : node[m] \in was[m]
    BY <1>1, <1>t DEF Recorded
  <1>p. stage \in {"first", "next"} =>
            (was[n] = {Wanted} => <<n, Wanted>> \in must \/ n \in ToSet(list))
    BY <1>2, <1>3 DEF Pending, Stayed
  <1>o. stage \in {"first", "next", "opendir"}
    BY <1>1 DEF TreeNext, FsStep, OthersStep, HasDirectory, BadPattern, OpenDir, OpenFails, ListEntry,
       IterateFails, ListReturn, MkdirStatus, MkdirParent, MakeDir, MakeDirExists, MakeDirFails,
       TouchExists, TouchCreate, TouchCreateFails, TouchTime, RemovePath, RemoveFails,
       RemoveEntry, RemoveLast, Made, Leave, Goto, OthersCreate, OthersRemove, Others, fsVars
  <1>4. ASSUME OpenDir PROVE <<n, Wanted'>> \in must'
    <2>1. was' = was /\ must' = {<<q, node[q]>> : q \in {m \in Name : node[m] # "none"}}
      BY <1>4 DEF OpenDir, Aside, treeVars
    <2>2. node[n] = Wanted
      BY <2>1, <1>3, <1>m
    <2> QED
      BY <2>1, <2>2, <1>3, <1>t
  <1>5. ASSUME ListEntry PROVE <<n, Wanted'>> \in must' \/ n \in ToSet(list')
    <2>0. PICK e \in must \cup may : \E k \in {e[2], node[e[1]]} :
            /\ must' = must \ {e}
            /\ list' = IF k = Wanted /\ Fits(e[1]) THEN Append(list, e[1]) ELSE list
      BY <1>5 DEF ListEntry
    <2>1. PICK kind \in {e[2], node[e[1]]} :
            /\ must' = must \ {e}
            /\ list' = IF kind = Wanted /\ Fits(e[1]) THEN Append(list, e[1]) ELSE list
      BY <2>0
    <2>2. was' = was /\ was[n] = {Wanted} /\ stage \in {"first", "next"}
      BY <1>5, <1>3 DEF ListEntry, treeVars
    <2>3. e[1] \in Name
      BY <2>1, <1>t DEF TypeInv, TreeTypeOK
    <2>4. ToSet(list) \subseteq ToSet(list')
      BY <2>1, <2>3, <1>t, ToSetAppend
    <2>5. CASE n \in ToSet(list)
      BY <2>4, <2>5
    <2>6. CASE <<n, Wanted>> \in must /\ e # <<n, Wanted>>
      BY <2>1, <2>6, <1>3
    <2>7. CASE e = <<n, Wanted>>
      <3>1. e[1] = n /\ e[2] = Wanted /\ node[n] = Wanted
        BY <2>2, <2>7, <1>m
      <3>2. list' = Append(list, n)
        BY <2>1, <3>1, <1>3
      <3> QED
        BY <3>2, <1>t, ToSetAppend
    <2> QED
      BY <2>2, <2>5, <2>6, <2>7, <1>p
  <1>6. ASSUME NEW p \in Path, NEW k \in {"file", "dir"}, OthersCreate(p, k)
        PROVE  <<n, Wanted'>> \in must' \/ n \in ToSet(list')
    <2>1. Change(p, k) /\ node[p] # k /\ list' = list /\ stage' = stage
      BY <1>6 DEF OthersCreate, Others
    <2>2. was[n] = {Wanted} /\ (<<n, Wanted>> \in must => <<n, Wanted>> \in must')
      BY <2>1, <1>1, <1>3, <1>t, ChangeHistory
    <2> QED
      BY <2>1, <2>2, <1>3, <1>p
  <1>7. ASSUME NEW p \in Path, OthersRemove(p)
        PROVE  <<n, Wanted'>> \in must' \/ n \in ToSet(list')
    <2>1. Change(p, "none") /\ node[p] # "none" /\ list' = list /\ stage' = stage
      BY <1>7 DEF OthersRemove, Others
    <2>2. was[n] = {Wanted} /\ (<<n, Wanted>> \in must => <<n, Wanted>> \in must')
      BY <2>1, <1>1, <1>3, <1>t, ChangeHistory
    <2> QED
      BY <2>1, <2>2, <1>3, <1>p
  <1>8. CASE UNCHANGED fsVars
    <2>1. was' = was /\ must' = must /\ list' = list /\ stage' = stage
      BY <1>8 DEF fsVars, treeVars, locals, streamVars
    <2> QED
      BY <2>1, <1>3, <1>p
  <1>9. called \in Listing /\ "removeDir" \notin Listing
    BY <1>2 DEF Listing
  <1>10. CASE TreeNext /\ ~OpenDir /\ ~ListEntry /\ ~OthersStep
    BY <1>1, <1>9, <1>o, <1>10 DEF TreeNext, FsStep, HasDirectory, BadPattern, OpenFails,
       IterateFails, ListReturn, MkdirStatus, MkdirParent, MakeDir, MakeDirExists, MakeDirFails,
       TouchExists, TouchCreate, TouchCreateFails, TouchTime, RemovePath, RemoveFails,
       RemoveEntry, RemoveLast, Made, Leave, Goto
  <1> QED
    BY <1>4, <1>5, <1>6, <1>7, <1>8, <1>10 DEF OthersStep

LEMMA StepComplete == ListInv /\ [TreeNext]_fsVars => ListingComplete'
  <1> SUFFICES ASSUME ListInv, [TreeNext]_fsVars,
                      stage' = "idle", called' \in Listing, outcome' = "ok", list' # <<>>,
                      NEW n \in Name, Fits(n)', was'[n] = {Wanted'}
               PROVE  n \in ToSet(list')
    BY DEF ListingComplete, Listed
  <1>1. ~CallAny
    BY CallStarts
  <1>2. CASE stage = "idle"
    <2>1. called' = called /\ arg' = arg /\ was' = was /\ list' = list /\ outcome' = outcome
      BY <1>1, <1>2, IdleStep
    <2>2. Wanted' = Wanted /\ Fits(n)' = Fits(n)
      BY <2>1, SameCall
    <2> QED
      BY <2>1, <2>2, <1>2 DEF ListInv, ListingComplete, Listed
  <1>3. CASE stage # "idle"
    <2>1. called' = called /\ arg' = arg
      BY <1>3, BusyStep DEF ListInv
    <2>2. Wanted' = Wanted /\ Fits(n)' = Fits(n)
      BY <2>1, SameCall
    <2>3. called \in Listing /\ called \notin {"mkdir", "mkdir_p", "touch", "removeFile", "removeDir"}
      BY <2>1 DEF Listing
    <2>4. HasDirectory \/ BadPattern \/ OpenFails \/ ListReturn
      BY <1>1, <1>3, <2>3 DEF TreeNext, FsStep, OthersStep, OpenDir, ListEntry,
         IterateFails, MkdirStatus, MkdirParent, MakeDir, MakeDirExists, MakeDirFails,
         TouchExists, TouchCreate, TouchCreateFails, TouchTime, RemovePath, RemoveFails,
         RemoveEntry, RemoveLast, Made, Leave, Goto, OthersCreate, OthersRemove, Others, fsVars,
         ListInv, HistInv, TypeInv, Place
    <2>5. list' = list /\ was' = was
      BY <2>4 DEF HasDirectory, BadPattern, OpenFails, ListReturn, Aside, treeVars
    <2>6. CASE HasDirectory \/ BadPattern \/ OpenFails
      <3>1. stage \in {"exists", "is_directory", "opendir", "first"}
        BY <2>6 DEF HasDirectory, BadPattern, OpenFails
      <3>2. list = <<>>
        BY <2>3, <3>1 DEF ListInv, Unlisted
      <3> QED
        BY <2>5, <3>2
    <2>7. CASE ListReturn
      <3>1. must = {} /\ stage \in {"first", "next"}
        BY <2>7 DEF ListReturn
      <3> QED
        BY <2>2, <2>3, <2>5, <3>1 DEF ListInv, Pending, Stayed
    <2> QED
      BY <2>4, <2>6, <2>7
  <1> QED
    BY <1>2, <1>3

\* However the directory changes while it is read, a list that is not empty has
\* every entry asked for that was there during the whole call.
THEOREM ListsAreComplete == TreeSpec => []ListingComplete
  <1>1. TreeInit => ListInv
    BY InitHist DEF ListInv, Unlisted, Pending, ListingComplete, Listed, TreeInit, Listing
  <1>2. ListInv /\ [TreeNext]_fsVars => ListInv'
    BY StepHist, StepUnlisted, StepPending, StepComplete DEF ListInv
  <1>3. ListInv => ListingComplete
    BY DEF ListInv
  <1> QED
    BY <1>1, <1>2, <1>3, PTL DEF TreeSpec

--------------------------------------------------------------------------
(* Patterns                                                                *)

\* The equations that define reach in RegexMatch.
Row(m, p, n, i) ==
    IF i = 0 THEN {0}
    ELSE IF p[i] = "*"
         THEN {j \in 0..Len(n) :
                 \E k \in m[i - 1] : k <= j /\ \A l \in k + 1 .. j : AnyChar(n[l])}
    ELSE {j \in 1..Len(n) : j - 1 \in m[i - 1] /\ Atom(p[i], n[j])}

IsReach(m, p, n) == m = [i \in 0..Len(p) |-> Row(m, p, n, i)]

\* A character of a wildcard other than * means the character c.
Means(ch, c) == ch # "?" => LowerCase(ch) = LowerCase(c)

\* The first i characters of the pattern have pieces that end at j in the name.
Piece(p, n, cut, k) ==
    IF p[k] = "*" THEN cut[k - 1] <= cut[k]
    ELSE cut[k] = cut[k - 1] + 1 /\ Means(p[k], n[cut[k]])

Cuts(p, n, i, j) ==
    \E cut \in [0..i -> 0..Len(n)] :
        /\ cut[0] = 0 /\ cut[i] = j
        /\ \A k \in 1..i : Piece(p, n, cut, k)

\* If the equations have a solution, RegexMatch is read off one.
LEMMA ReachChosen ==
    ASSUME NEW p, NEW n, NEW g, IsReach(g, p, n)
    PROVE  \E m : IsReach(m, p, n) /\ (RegexMatch(p, n) <=> Len(n) \in m[Len(p)])
  <1> DEFINE m == CHOOSE m : IsReach(m, p, n)
  <1>1. IsReach(m, p, n)
    BY Zenon
  <1>2. RegexMatch(p, n) <=> Len(n) \in m[Len(p)]
    BY Zenon DEF RegexMatch, IsReach, Row
  <1> QED
    BY <1>1, <1>2

\* They have one solution only: consider the first row where two differ.
LEMMA ReachUnique ==
    ASSUME NEW S, NEW p \in Seq(S), NEW n \in Seq(S),
           NEW m, IsReach(m, p, n), NEW g, IsReach(g, p, n)
    PROVE  \A i \in 0..Len(p) : m[i] = g[i]
  <1> DEFINE T == {i \in 0..Len(p) : m[i] # g[i]}
  <1>1. Len(p) \in Nat /\ T \subseteq Nat
    BY LenProperties
  <1>2. \A i \in 0..Len(p) : m[i] = Row(m, p, n, i) /\ g[i] = Row(g, p, n, i)
    BY DEF IsReach
  <1>3. CASE T # {}
    <2>1. PICK x \in T : \A y \in T : ~(<<y, x>> \in OpToRel(<, Nat))
      BY <1>1, <1>3, NatLessThanWellFounded, WFMin
    <2>2. x \in 0..Len(p) /\ x \in Nat
      BY <1>1
    <2>3. x # 0
      BY <1>2, <2>2 DEF Row
    <2>4. x - 1 \in 0..Len(p) /\ x - 1 \in Nat /\ x - 1 < x
      BY <1>1, <2>2, <2>3
    <2>5. <<x - 1, x>> \in OpToRel(<, Nat)
      BY <2>2, <2>4 DEF OpToRel
    <2>6. m[x - 1] = g[x - 1]
      BY <2>1, <2>4, <2>5
    <2>7. Row(m, p, n, x) = Row(g, p, n, x)
      BY <2>6 DEF Row
    <2> QED
      BY <1>2, <2>2, <2>7
  <1> QED
    BY <1>3

\* A cut of i characters is a cut of i - 1 and a piece for the last.
LEMMA CutsStep ==
    ASSUME NEW S, NEW p \in Seq(S), NEW n \in Seq(S),
           NEW i \in 1..Len(p), NEW j \in 0..Len(n)
    PROVE  Cuts(p, n, i, j) <=>
               \E l \in 0..Len(n) :
                   /\ Cuts(p, n, i - 1, l)
                   /\ IF p[i] = "*" THEN l <= j ELSE j = l + 1 /\ Means(p[i], n[j])
  <1>1. /\ Len(p) \in Nat /\ Len(n) \in Nat /\ i \in Nat /\ i - 1 \in Nat /\ i # 0
        /\ i - 1 \in 0..i /\ i \in 0..i /\ 0 \in 0..i /\ 0 \in 0..i - 1
        /\ 0..i - 1 \subseteq 0..i /\ 1..i - 1 \subseteq 1..i /\ i \in 1..i
        /\ \A k \in 1..i - 1 : k \in 0..i - 1 /\ k - 1 \in 0..i - 1 /\ k # i
        /\ \A k \in 1..i : k = i \/ k \in 1..i - 1
    BY LenProperties
  <1>2. ASSUME Cuts(p, n, i, j)
        PROVE  \E l \in 0..Len(n) :
                   /\ Cuts(p, n, i - 1, l)
                   /\ IF p[i] = "*" THEN l <= j ELSE j = l + 1 /\ Means(p[i], n[j])
    <2>1. PICK cut \in [0..i -> 0..Len(n)] :
            /\ cut[0] = 0 /\ cut[i] = j
            /\ \A k \in 1..i : Piece(p, n, cut, k)
      BY <1>2 DEF Cuts
    <2> DEFINE first == [k \in 0..i - 1 |-> cut[k]]
    <2>2. first \in [0..i - 1 -> 0..Len(n)] /\ first[0] = 0 /\ first[i - 1] = cut[i - 1]
      BY <1>1, <2>1
    <2>3. \A k \in 1..i - 1 : first[k] = cut[k] /\ first[k - 1] = cut[k - 1]
      BY <1>1
    <2>4. \A k \in 1..i - 1 : Piece(p, n, first, k)
      BY <1>1, <2>1, <2>3 DEF Piece
    <2>5. Cuts(p, n, i - 1, cut[i - 1]) /\ cut[i - 1] \in 0..Len(n)
      BY <1>1, <2>2, <2>4 DEF Cuts
    <2>6. Piece(p, n, cut, i)
      BY <1>1, <2>1
    <2> QED
      BY <2>1, <2>5, <2>6 DEF Piece
  <1>3. ASSUME NEW l \in 0..Len(n), Cuts(p, n, i - 1, l),
               IF p[i] = "*" THEN l <= j ELSE j = l + 1 /\ Means(p[i], n[j])
        PROVE  Cuts(p, n, i, j)
    <2>1. PICK first \in [0..i - 1 -> 0..Len(n)] :
            /\ first[0] = 0 /\ first[i - 1] = l
            /\ \A k \in 1..i - 1 : Piece(p, n, first, k)
      BY <1>3 DEF Cuts
    <2> DEFINE cut == [k \in 0..i |-> IF k = i THEN j ELSE first[k]]
    <2>2. cut \in [0..i -> 0..Len(n)] /\ cut[0] = 0 /\ cut[i] = j /\ cut[i - 1] = l
      BY <1>1, <2>1
    <2>3. \A k \in 1..i - 1 : cut[k] = first[k] /\ cut[k - 1] = first[k - 1]
      BY <1>1
    <2> HIDE DEF cut
    <2>4. \A k \in 1..i - 1 : Piece(p, n, cut, k)
      BY <2>1, <2>3 DEF Piece
    <2>5. Piece(p, n, cut, i)
      BY <1>3, <2>2 DEF Piece
    <2> QED
      BY <1>1, <2>2, <2>4, <2>5 DEF Cuts
  <1> QED
    BY <1>2, <1>3

\* The cuts solve the equations.
LEMMA CutsAreReach ==
    ASSUME NEW S, NEW p \in Seq(S), NEW n \in Seq(S), OneLine(n)
    PROVE  IsReach([i \in 0..Len(p) |-> {j \in 0..Len(n) : Cuts(p, n, i, j)}], p, n)
  <1> DEFINE g == [i \in 0..Len(p) |-> {j \in 0..Len(n) : Cuts(p, n, i, j)}]
  <1>1. Len(p) \in Nat /\ Len(n) \in Nat
    BY LenProperties
  <1>2. ASSUME NEW i \in 0..Len(p)
        PROVE  g[i] = Row(g, p, n, i)
    <2>1. CASE i = 0
      <3>1. ASSUME NEW j \in 0..Len(n) PROVE Cuts(p, n, 0, j) <=> j = 0
        <4> DEFINE cut == [k \in 0..0 |-> 0]
        <4>1. cut \in [0..0 -> 0..Len(n)] /\ cut[0] = 0 /\ \A k \in 1..0 : Piece(p, n, cut, k)
          BY <1>1
        <4> HIDE DEF cut
        <4>2. j = 0 => Cuts(p, n, 0, j)
          BY <4>1 DEF Cuts
        <4>3. Cuts(p, n, 0, j) => j = 0
          BY DEF Cuts
        <4> QED
          BY <4>2, <4>3
      <3> QED
        BY <1>1, <2>1, <3>1 DEF Row
    <2>2. CASE i # 0
      <3>1. i \in 1..Len(p) /\ i - 1 \in 0..Len(p)
        BY <1>1, <2>2
      <3>2. g[i - 1] = {l \in 0..Len(n) : Cuts(p, n, i - 1, l)}
            /\ g[i] = {j \in 0..Len(n) : Cuts(p, n, i, j)}
        BY <3>1
      <3> HIDE DEF g
      <3>3. \A j \in 0..Len(n) :
              Cuts(p, n, i, j) <=>
                \E l \in g[i - 1] :
                   IF p[i] = "*" THEN l <= j ELSE j = l + 1 /\ Means(p[i], n[j])
        <4> TAKE j \in 0..Len(n)
        <4>1. Cuts(p, n, i, j) <=>
                \E l \in 0..Len(n) :
                   /\ Cuts(p, n, i - 1, l)
                   /\ IF p[i] = "*" THEN l <= j ELSE j = l + 1 /\ Means(p[i], n[j])
          BY <3>1, CutsStep
        <4> QED
          BY <3>2, <4>1, Zenon
      <3>4. CASE p[i] = "*"
        <4>1. \A k \in g[i - 1] : \A j \in 0..Len(n) :
                 \A l \in k + 1 .. j : AnyChar(n[l])
          <5>1. \A k \in g[i - 1] : k \in Nat
            BY <1>1, <3>2
          <5> QED
            BY <1>1, <5>1 DEF OneLine
        <4>2. g[i] = {j \in 0..Len(n) : \E k \in g[i - 1] : k <= j}
          BY <3>2, <3>3, <3>4
        <4>3. {j \in 0..Len(n) : \E k \in g[i - 1] : k <= j}
                 = {j \in 0..Len(n) :
                      \E k \in g[i - 1] : k <= j /\ \A l \in k + 1 .. j : AnyChar(n[l])}
          BY <4>1
        <4> QED
          BY <2>2, <3>4, <4>2, <4>3 DEF Row
      <3>5. CASE p[i] # "*"
        <4>1. \A j \in 0..Len(n) : Cuts(p, n, i, j) <=>
                 j \in 1..Len(n) /\ j - 1 \in g[i - 1] /\ Atom(p[i], n[j])
          <5> TAKE j \in 0..Len(n)
          <5>1. \A l \in g[i - 1] : l \in Nat /\ (j = l + 1 <=> l = j - 1)
            BY <1>1, <3>2
          <5>2. j - 1 \in g[i - 1] => j \in 1..Len(n)
            BY <1>1, <5>1
          <5>3. Cuts(p, n, i, j) <=> \E l \in g[i - 1] : j = l + 1 /\ Means(p[i], n[j])
            BY <3>3, <3>5
          <5>4. j \in 1..Len(n) => (Means(p[i], n[j]) <=> Atom(p[i], n[j]))
            BY Zenon DEF OneLine, Means, Atom
          <5> QED
            BY <5>1, <5>2, <5>3, <5>4
        <4> QED
          BY <1>1, <2>2, <3>2, <3>5, <4>1 DEF Row
      <3> QED
        BY <3>4, <3>5
    <2> QED
      BY <2>1, <2>2
  <1> QED
    BY <1>2 DEF IsReach

\* std::regex_match of the translated pattern takes exactly the names that the
\* wildcard means, for any pattern without a character that the code fails to
\* escape (for any other RegexMatch is not what the code does, see Fits) and any
\* name of one line, which is as far as the . of an expression reaches.
THEOREM WildcardMatches ==
    ASSUME NEW S, NEW p \in Seq(S), NEW n \in Seq(S), Literal(p), OneLine(n)
    PROVE  RegexMatch(p, n) <=> Glob(p, n)
  <1> DEFINE g == [i \in 0..Len(p) |-> {j \in 0..Len(n) : Cuts(p, n, i, j)}]
  <1>1. IsReach(g, p, n)
    BY CutsAreReach
  <1>2. Len(p) \in 0..Len(p) /\ Len(n) \in 0..Len(n)
    BY LenProperties
  <1>3. g[Len(p)] = {j \in 0..Len(n) : Cuts(p, n, Len(p), j)}
    BY <1>2
  <1> HIDE DEF g
  <1>4. PICK m : IsReach(m, p, n) /\ (RegexMatch(p, n) <=> Len(n) \in m[Len(p)])
    BY <1>1, ReachChosen
  <1>5. m[Len(p)] = g[Len(p)]
    BY <1>1, <1>2, <1>4, ReachUnique
  <1>6. RegexMatch(p, n) <=> Cuts(p, n, Len(p), Len(n))
    BY <1>2, <1>3, <1>4, <1>5
  <1>7. Cuts(p, n, Len(p), Len(n)) <=> Glob(p, n)
    BY DEF Cuts, Piece, Means, Glob
  <1> QED
    BY <1>6, <1>7

LEMMA SubSeqFacts ==
    ASSUME NEW S, NEW s \in Seq(S), NEW k \in Nat, NEW l \in Nat, k + l <= Len(s)
    PROVE  /\ SubSeq(s, k + 1, k + l) \in Seq(S) /\ Len(SubSeq(s, k + 1, k + l)) = l
           /\ \A i \in 1..l : SubSeq(s, k + 1, k + l)[i] = s[k + i]
  OBVIOUS

LEMMA ReverseFacts ==
    ASSUME NEW S, NEW s \in Seq(S)
    PROVE  /\ Reverse(s) \in Seq(S) /\ Len(Reverse(s)) = Len(s)
           /\ \A i \in 1..Len(s) : Reverse(s)[i] = s[(Len(s) - i) + 1]
  <1>1. Len(s) \in Nat /\ \A i \in 1..Len(s) : (Len(s) - i) + 1 \in 1..Len(s)
    BY LenProperties
  <1>2. \A i \in 1..Len(s) : s[(Len(s) - i) + 1] \in S
    BY <1>1, ElementOfSeq
  <1>3. Reverse(s) \in [1..Len(s) -> S]
    BY <1>2 DEF Reverse
  <1>4. Reverse(s) \in Seq(S) /\ DOMAIN Reverse(s) = 1..Len(s)
    BY <1>1, <1>3, SeqDef
  <1> QED
    BY <1>1, <1>4, LenProperties DEF Reverse

\* A suffix, character by character.
LEMMA SuffixFacts ==
    ASSUME NEW S, NEW e \in Seq(S), NEW n \in Seq(S)
    PROVE  IsSuffix(e, n) <=> /\ Len(e) <= Len(n)
                              /\ \A i \in 1..Len(e) : n[(Len(n) - Len(e)) + i] = e[i]
  <1> DEFINE a == Len(e)
             b == Len(n)
  <1>1. a \in Nat /\ b \in Nat
    BY LenProperties
  <1>2. /\ Reverse(e) \in Seq(S) /\ Len(Reverse(e)) = a
        /\ Reverse(n) \in Seq(S) /\ Len(Reverse(n)) = b
        /\ \A i \in 1..a : Reverse(e)[i] = e[(a - i) + 1]
        /\ \A i \in 1..b : Reverse(n)[i] = n[(b - i) + 1]
    BY ReverseFacts
  <1>3. CASE a <= b
    <2> DEFINE v == SubSeq(Reverse(e), 0 + 1, 0 + a)
               w == SubSeq(Reverse(n), 0 + 1, 0 + a)
    <2>1. 0 + 1 = 1 /\ 0 + a = a /\ 0 \in Nat
      BY <1>1
    <2>2. v \in Seq(S) /\ Len(v) = a /\ \A i \in 1..a : v[i] = Reverse(e)[0 + i]
      BY <1>1, <1>2, <2>1, SubSeqFacts
    <2>3. w \in Seq(S) /\ Len(w) = a /\ \A i \in 1..a : w[i] = Reverse(n)[0 + i]
      BY <1>1, <1>2, <1>3, <2>1, SubSeqFacts
    <2>4. IsSuffix(e, n) <=> v = w
      BY <1>2, <1>3, <2>1 DEF IsSuffix, IsPrefix
    <2> HIDE DEF v, w
    <2>5. v = w <=> \A i \in 1..a : e[(a - i) + 1] = n[(b - i) + 1]
      <3>1. \A i \in 1..a : i \in 1..b /\ 0 + i = i
        BY <1>1, <1>3
      <3>2. \A i \in 1..a : v[i] = e[(a - i) + 1] /\ w[i] = n[(b - i) + 1]
        BY <1>2, <2>2, <2>3, <3>1
      <3> QED
        BY <2>2, <2>3, <3>2, SeqEqual
    <2>6. (\A i \in 1..a : n[(b - a) + i] = e[i]) <=> \A i \in 1..a : e[(a - i) + 1] = n[(b - i) + 1]
      <3>1. \A i \in 1..a : /\ (a - i) + 1 \in 1..a
                            /\ (a - ((a - i) + 1)) + 1 = i
                            /\ (b - a) + ((a - i) + 1) = (b - i) + 1
                            /\ (b - ((a - i) + 1)) + 1 = (b - a) + i
        BY <1>1, <1>3
      <3> QED
        BY <3>1
    <2> QED
      BY <1>3, <2>4, <2>5, <2>6
  <1>4. CASE ~(a <= b)
    BY <1>1, <1>2, <1>4 DEF IsSuffix, IsPrefix
  <1> QED
    BY <1>3, <1>4

\* The comparison in getFilesWithExtention, of the end of the path x \o n of an
\* entry, takes the names n that end in e, if e has no part of another name in it.
LEMMA ExtensionMatches ==
    ASSUME NEW S, NEW e \in Seq(S), NEW n \in Seq(S), NEW x \in Seq(S),
           x # <<>>, Last(x) = "/", "/" \notin ToSet(e)
    PROVE  LET path == x \o n
           IN  (/\ Len(path) >= Len(e)
                /\ SubSeq(path, Len(path) - Len(e) + 1, Len(path)) = e)
                  <=> IsSuffix(e, n)
  <1> DEFINE a == Len(e)
             b == Len(n)
             o == Len(x)
             path == x \o n
             L == Len(path)
             u == SubSeq(path, (L - a) + 1, (L - a) + a)
  <1>1. a \in Nat /\ b \in Nat /\ o \in Nat /\ o >= 1
    BY LenProperties, EmptySeq
  <1>2. /\ path \in Seq(S) /\ L = o + b /\ L \in Nat
        /\ \A i \in 1..b : path[o + i] = n[i]
        /\ path[o] = "/"
    <2>1. path \in Seq(S) /\ L = o + b
      BY ConcatProperties
    <2>2. \A i \in 1 .. o + b : path[i] = IF i <= o THEN x[i] ELSE n[i - o]
      BY ConcatProperties
    <2>3. \A i \in 1..b : o + i \in 1 .. o + b /\ ~(o + i <= o) /\ (o + i) - o = i
      BY <1>1
    <2>4. o \in 1 .. o + b /\ o <= o
      BY <1>1
    <2> QED
      BY <1>1, <2>1, <2>2, <2>3, <2>4 DEF Last
  <1>3. (L >= a /\ u = e) <=> (L >= a /\ SubSeq(path, L - a + 1, L) = e)
    BY <1>1, <1>2
  <1> HIDE DEF path
  <1>4. L >= a => (u = e <=> \A i \in 1..a : path[(L - a) + i] = e[i])
    <2> SUFFICES ASSUME L >= a
                 PROVE  u = e <=> \A i \in 1..a : path[(L - a) + i] = e[i]
      OBVIOUS
    <2>1. L - a \in Nat /\ (L - a) + a = L
      BY <1>1, <1>2
    <2>2. u \in Seq(S) /\ Len(u) = a /\ \A i \in 1..a : u[i] = path[(L - a) + i]
      BY <1>1, <1>2, <2>1, SubSeqFacts
    <2> HIDE DEF u
    <2> QED
      BY <2>2, SeqEqual
  <1> HIDE DEF u
  <1>5. (L >= a /\ u = e) <=> (a <= b /\ \A i \in 1..a : n[(b - a) + i] = e[i])
    <2>1. CASE a <= b
      <3>1. L >= a
        BY <1>1, <1>2, <2>1
      <3>2. \A i \in 1..a : (b - a) + i \in 1..b /\ o + ((b - a) + i) = (L - a) + i
        BY <1>1, <1>2, <2>1
      <3>3. \A i \in 1..a : path[(L - a) + i] = n[(b - a) + i]
        BY <1>2, <3>2
      <3> QED
        BY <1>4, <2>1, <3>1, <3>3
    <2>2. CASE ~(a <= b)
      <3> SUFFICES ASSUME L >= a, u = e
                   PROVE  FALSE
        BY <2>2
      <3>1. a - b \in 1..a /\ (L - a) + (a - b) = o
        BY <1>1, <1>2, <2>2
      <3>2. e[a - b] = "/"
        BY <1>2, <1>4, <3>1
      <3> QED
        BY <3>1, <3>2 DEF ToSet
    <2> QED
      BY <2>1, <2>2
  <1>6. IsSuffix(e, n) <=> (a <= b /\ \A i \in 1..a : n[(b - a) + i] = e[i])
    BY SuffixFacts
  <1> QED
    BY <1>3, <1>5, <1>6 DEF path

-----------------------------------------------------------------------------
(* What a list holds                                                       *)

\* The filter takes what the wildcard or the extension asks for.
LEMMA FilterSound ==
    ASSUME TreeTypeOK, Simple, NEW n \in Name, OneLine(n)
    PROVE  Fits(n) <=> Asked(n)
  <1>1. /\ n \in Seq(STRING) /\ (called \in Listing => arg \in Seq(STRING))
        /\ Above \in Seq(STRING) /\ Above # <<>> /\ Last(Above) = "/"
    BY NameAssumption DEF TreeTypeOK
  <1>2. CASE called = "getFilesMatching"
    <2>1. Literal(arg) /\ arg \in Seq(STRING)
      BY <1>1, <1>2 DEF Simple, Listing
    <2>2. RegexMatch(arg, n) <=> Glob(arg, n)
      BY <1>1, <2>1, WildcardMatches
    <2> QED
      BY <1>2, <2>1, <2>2, Zenon DEF Fits, Asked
  <1>3. CASE called = "getFilesWithExtention"
    <2>1. "/" \notin ToSet(arg) /\ arg \in Seq(STRING)
      BY <1>1, <1>3 DEF Simple, Listing
    <2>2. LET path == Above \o n
          IN  (/\ Len(path) >= Len(arg)
               /\ SubSeq(path, Len(path) - Len(arg) + 1, Len(path)) = arg)
                 <=> IsSuffix(arg, n)
      BY <1>1, <2>1, ExtensionMatches
    <2> QED
      BY <1>3, <2>2 DEF Fits, Asked
  <1>4. CASE called \notin {"getFilesMatching", "getFilesWithExtention"}
    BY <1>4 DEF Fits, Asked
  <1> QED
    BY <1>2, <1>3, <1>4

\* What a stream may return was of that kind during the call; between two calls
\* there is no stream.
Seen ==
    /\ stage = "idle" => must = {} /\ may = {} /\ ~live
    /\ stage # "idle" => \A e \in must \cup may : e[2] \in was[e[1]]

\* What is in the list passed the filter and was of the kind wanted.
Found == called \in Listing => \A n \in ToSet(list) : Fits(n) /\ Wanted \in was[n]

SoundInv == HistInv /\ Seen /\ Found

\* A step that touches neither the tree nor the entries of a stream.
LEMMA StreamSteps ==
    ASSUME AsideStep, ~OpenDir
    PROVE  \/ must' = must /\ may' = may /\ stage' # "idle"
           \/ must' = {} /\ may' = {} /\ live' = FALSE
  BY DEF AsideStep, HasDirectory, BadPattern, OpenFails, IterateFails, ListReturn,
     MkdirStatus, MkdirParent, MakeDirExists, MakeDirFails, TouchExists,
     TouchCreateFails, TouchTime, RemoveFails, RemoveLast, Made, Leave, Goto,
     locals, streamVars

\* A change of the tree adds an entry to a stream only when it adds the kind to
\* the history.
LEMMA ChangeSeen ==
    ASSUME TypeInv, Seen, stage # "idle", NEW p \in Path, NEW k \in Kinds, Change(p, k)
    PROVE  \A e \in must' \cup may' : e[2] \in was'[e[1]]
  <1>1. was \in [Path -> SUBSET Kinds] /\ must \cup may \subseteq Name \X {"file", "dir"}
    BY DEF TypeInv, TreeTypeOK
  <1>2. was' = [was EXCEPT ![p] = @ \cup {k}]
    BY DEF Change
  <1>3. \A q \in Path : was[q] \subseteq was'[q]
    BY <1>1, <1>2
  <1>4. \A e \in must' \cup may' : e \in must \cup may \/ e = <<p, k>>
    BY DEF Change
  <1>5. \A e \in must \cup may : e[1] \in Path /\ e[2] \in was[e[1]]
    BY <1>1 DEF Seen, Path
  <1>6. k \in was'[p]
    BY <1>1, <1>2
  <1> QED
    BY <1>3, <1>4, <1>5, <1>6

LEMMA StepSeen == HistInv /\ Seen /\ [TreeNext]_fsVars => Seen'
  <1> SUFFICES ASSUME HistInv, Seen, [TreeNext]_fsVars
               PROVE  Seen'
    OBVIOUS
  <1>t. /\ TypeInv /\ Recorded /\ Name \subseteq Path
        /\ must \cup may \subseteq Name \X {"file", "dir"}
        /\ Kinds = {"none", "file", "dir"}
    BY DEF HistInv, TypeInv, TreeTypeOK, Path, Kinds
  <1>g. stage # "idle" => \A q \in Path : was[q] \subseteq was'[q]
    BY BusyStep
  \* Entries that were in the stream already.
  <1>o. ASSUME stage # "idle", must' \cup may' \subseteq must \cup may
        PROVE  \A e \in must' \cup may' : e[2] \in was'[e[1]]
    <2>1. \A e \in must \cup may : e[1] \in Path /\ e[2] \in was[e[1]]
      BY <1>t, <1>o DEF Seen
    <2> QED
      BY <1>g, <1>o, <2>1
  <1>1. CASE CallAny
    <2>1. stage = "idle" /\ must' = must /\ may' = may /\ stage' # "idle"
      BY <1>1, CallStarts DEF CallAny, Invoke, streamVars
    <2> QED
      BY <2>1 DEF Seen
  <1>2. CASE OpenDir
    <2>1. /\ stage = "opendir" /\ stage' = "first" /\ was' = was /\ may' = may
          /\ must' = {<<n, node[n]>> : n \in {m \in Name : node[m] # "none"}}
      BY <1>2 DEF OpenDir, Aside, treeVars
    <2>2. \A e \in must' : e[2] \in was'[e[1]]
      BY <1>t, <2>1 DEF Recorded
    <2> QED
      BY <2>1, <2>2 DEF Seen
  <1>3. CASE AsideStep /\ ~OpenDir
    <2>1. stage # "idle"
      BY <1>3, AsideFacts
    <2>2. CASE must' = must /\ may' = may /\ stage' # "idle"
      BY <1>o, <2>1, <2>2 DEF Seen
    <2>3. CASE must' = {} /\ may' = {} /\ live' = FALSE
      BY <2>3 DEF Seen
    <2> QED
      BY <1>3, <2>2, <2>3, StreamSteps
  <1>4. CASE ListEntry \/ RemoveEntry
    <2>1. stage # "idle" /\ stage' # "idle" /\ must' \subseteq must /\ may' \subseteq may
      BY <1>4 DEF ListEntry, RemoveEntry
    <2> QED
      BY <1>o, <2>1 DEF Seen
  <1>5. CASE MakeDir
    <2>1. stage = "make" /\ Change(Head(todo), "dir") /\ Made
      BY <1>5 DEF MakeDir
    <2>2. Head(todo) \in Path
      BY <1>t, <2>1, MadePath
    <2>3. \A e \in must' \cup may' : e[2] \in was'[e[1]]
      BY <1>t, <2>1, <2>2, ChangeSeen
    <2>4. stage' = "idle" => must' = {} /\ may' = {} /\ live' = FALSE
      BY <2>1 DEF Made, Leave
    <2> QED
      BY <2>3, <2>4 DEF Seen
  <1>6. CASE TouchCreate \/ RemovePath
    <2>1. stage' = "idle" /\ must' = {} /\ may' = {} /\ live' = FALSE
      BY <1>6 DEF TouchCreate, RemovePath, Leave
    <2> QED
      BY <2>1 DEF Seen
  <1>7. ASSUME NEW p \in Path, NEW k \in Kinds, Change(p, k), stage' = stage
        PROVE  Seen'
    <2>1. CASE stage = "idle"
      <3>1. must = {} /\ may = {} /\ ~live
        BY <2>1 DEF Seen
      <3>2. must' = {} /\ may' = {} /\ ~live'
        BY <1>7, <3>1 DEF Change
      <3> QED
        BY <1>7, <2>1, <3>2 DEF Seen
    <2>2. CASE stage # "idle"
      BY <1>t, <1>7, <2>2, ChangeSeen DEF Seen
    <2> QED
      BY <2>1, <2>2
  <1>8. CASE OthersStep
    <2>1. \E p \in Path, k \in Kinds : Change(p, k) /\ stage' = stage
      BY <1>t, <1>8 DEF OthersStep, OthersCreate, OthersRemove, Others
    <2> QED
      BY <1>7, <2>1
  <1>9. CASE UNCHANGED fsVars
    BY <1>9 DEF Seen, fsVars, treeVars, locals, streamVars
  <1> QED
    BY <1>1, <1>2, <1>3, <1>4, <1>5, <1>6, <1>8, <1>9, Steps DEF OthersStep

LEMMA StepFound == SoundInv /\ [TreeNext]_fsVars => Found'
  <1> SUFFICES ASSUME SoundInv, [TreeNext]_fsVars, called' \in Listing, NEW n \in ToSet(list')
               PROVE  Fits(n)' /\ Wanted' \in was'[n]
    BY DEF Found
  <1>t. /\ HistInv /\ TypeInv /\ Recorded /\ list \in Seq(Name) /\ Name \subseteq Path
        /\ must \cup may \subseteq Name \X {"file", "dir"} /\ was \in [Path -> SUBSET Kinds]
    BY DEF SoundInv, HistInv, TypeInv, TreeTypeOK, Path
  <1>1. CASE CallAny
    <2>1. ToSet(list') = {}
      BY <1>1, CallStarts DEF ToSet
    <2> QED
      BY <2>1
  <1>2. CASE ~CallAny
    <2>1. called' = called /\ arg' = arg /\ \A q \in Path : was[q] \subseteq was'[q]
      BY <1>2, <1>t, IdleStep, BusyStep
    <2>2. Wanted' = Wanted /\ \A m \in Name : Fits(m)' = Fits(m)
      BY <2>1, SameCall
    <2>3. \A m \in ToSet(list) : m \in Name /\ Fits(m) /\ Wanted \in was[m]
      BY <1>t, <2>1, LenProperties, ElementOfSeq DEF SoundInv, Found, ToSet
    <2>4. CASE list' = list
      <3>1. n \in Name /\ Fits(n) /\ Wanted \in was[n]
        BY <2>3, <2>4
      <3> QED
        BY <1>t, <2>1, <2>2, <3>1
    <2>5. CASE ListEntry
      <3>1. PICK e \in must \cup may : \E k \in {e[2], node[e[1]]} :
              list' = IF k = Wanted /\ Fits(e[1]) THEN Append(list, e[1]) ELSE list
        BY <2>5 DEF ListEntry
      <3>2. PICK kind \in {e[2], node[e[1]]} :
              list' = IF kind = Wanted /\ Fits(e[1]) THEN Append(list, e[1]) ELSE list
        BY <3>1
      <3>3. e[1] \in Name /\ e[1] \in Path
        BY <1>t, <3>1
      <3>4. kind \in was[e[1]]
        BY <1>t, <2>5, <3>1, <3>2, <3>3 DEF ListEntry, SoundInv, Seen, Recorded
      <3>5. CASE list' = Append(list, e[1]) /\ kind = Wanted /\ Fits(e[1])
        <4>1. n \in ToSet(list) \/ n = e[1]
          <5>1. PICK i \in 1..Len(list') : n = list'[i]
            BY DEF ToSet
          <5>2. /\ Len(list') = Len(list) + 1 /\ Len(list) \in Nat
                /\ \A j \in 1..Len(list) : list'[j] = list[j]
                /\ list'[Len(list) + 1] = e[1]
            BY <1>t, <3>3, <3>5, AppendProperties, LenProperties
          <5> QED
            BY <5>1, <5>2 DEF ToSet
        <4>2. n \in Name /\ Fits(n) /\ Wanted \in was[n]
          BY <2>3, <3>3, <3>4, <3>5, <4>1
        <4> QED
          BY <1>t, <2>1, <2>2, <4>2
      <3> QED
        BY <2>4, <3>2, <3>5
    <2>6. CASE ~ListEntry
      <3>1. list' = list
        BY <1>2, <2>6, Steps, AsideFacts DEF MakeDir, TouchCreate, RemovePath,
           RemoveEntry, OthersCreate, OthersRemove, Others, fsVars
      <3> QED
        BY <2>4, <3>1
    <2> QED
      BY <2>5, <2>6
  <1> QED
    BY <1>1, <1>2

\* For any names, patterns and changes by others, each name listed passed the filter
\* and was, during the call, an entry of the kind wanted; and the filter takes what a
\* wildcard or an extension means, if the argument is one (Simple) and nothing that
\* std::regex or the comparison of paths takes for more.
THEOREM ListsAreSound == TreeSpec => []ListingSound
  <1>1. TreeInit => SoundInv
    <2>1. TreeInit => Seen /\ Found
      BY DEF TreeInit, Seen, Found, Listing
    <2> QED
      BY <2>1, InitHist DEF SoundInv
  <1>2. SoundInv /\ [TreeNext]_fsVars => SoundInv'
    BY StepHist, StepSeen, StepFound DEF SoundInv
  <1>3. SoundInv => ListingSound
    <2> SUFFICES ASSUME SoundInv, Listed
                 PROVE  /\ Simple => \A n \in Name : OneLine(n) => (Fits(n) <=> Asked(n))
                        /\ \A n \in ToSet(list) : Fits(n) /\ Wanted \in was[n]
      BY DEF ListingSound
    <2>1. Simple => \A n \in Name : OneLine(n) => (Fits(n) <=> Asked(n))
      BY FilterSound DEF SoundInv, HistInv, TypeInv
    <2> QED
      BY <2>1 DEF SoundInv, Found, Listed
  <1> QED
    BY <1>1, <1>2, <1>3, PTL DEF TreeSpec

=============================================================================
