------------------------- MODULE MmctlFilesetProofs -------------------------
(***************************************************************************)
(* TLAPS proofs about MmctlFileset, for any filesets, names and junctions    *)
(* and for integers of any width.                                           *)
(*                                                                         *)
(* What a junction leads to is right because of three things that hold of    *)
(* the filesets (Listing), of the command between its requests (Chosen) and  *)
(* of what it has computed (Counted).                                       *)
(***************************************************************************)
EXTENDS MmctlFileset, TLAPS

\* Every fileset has a name of its own, and one with the path that -J asks for
\* has been seen there.
Listing ==
  /\ \A i \in Live : filesets[i].name \in Name
  /\ \A i, j \in Live : filesets[i].name = filesets[j].name => i = j
  /\ LinkedAt(Sought) \subseteq held

\* The fileset a command by junction has settled on still has its name, if no
\* name has changed hands.
Chosen ==
  /\ phase # "exited" => hit = {}
  /\ phase \in {"parameters", "mount", "write"} => fileset \in Name
  /\ phase = "list" => command.verb # "create"
  /\ phase \in {"parameters", "mount", "write"} /\ ByJunction =>
       /\ command.verb # "create"
       /\ ~renamed => \E i \in Live : i \in held /\ filesets[i].name = fileset

\* The counts to be sent are products of numbers that an int64 holds.
Counted ==
  \A l \in limits :
    \E f \in {"maxNumInodes", "inodeLimit"} :
      /\ l = <<f, parseInodeCount(LimitOf(f))>>
      /\ LimitOf(f).n \in 0..MaxInt

IInv == TypeOK /\ Listing /\ Chosen /\ Counted /\ JunctionHitUnlessRenamed

-----------------------------------------------------------------------------
(* Arithmetic *)

LEMMA ModBelow ==
  ASSUME NEW d \in Nat \ {0}, NEW x \in 0..(d - 1)
  PROVE  x % d = x
OBVIOUS

LEMMA WrappedInt == ASSUME NEW x \in Int PROVE Wrapped(x) \in Int
<1>1. MaxInt \in Nat
  BY FilesetAssumption
<1> QED BY <1>1 DEF Wrapped

LEMMA WrappedFits ==
  ASSUME NEW x \in 0..MaxInt
  PROVE  Wrapped(x) = x
<1>1. MaxInt \in Nat
  BY FilesetAssumption
<1> DEFINE d == 2 * (MaxInt + 1)
           y == x + MaxInt + 1
<1>2. d \in Nat \ {0} /\ y \in 0..(d - 1)
  BY <1>1
<1>3. y % d = y
  <2> HIDE DEF d, y
  <2> QED BY <1>2, ModBelow
<1> QED BY <1>1, <1>3 DEF Wrapped

LEMMA ProductNat == ASSUME NEW a \in Nat, NEW b \in Nat PROVE a * b \in Nat
OBVIOUS

\* The option a field is filled from.
LEMMA LimitType ==
  ASSUME command \in Commands, NEW f
  PROVE  LimitOf(f) \in Limit
BY FilesetAssumption DEF LimitOf, Command

LEMMA CountInt ==
  ASSUME NEW l \in Limit
  PROVE  parseInodeCount(l) \in Int
<1>1. l.n \in Int /\ Unit[l.unit] \in Nat
  BY FilesetAssumption DEF Limit
<1>2. l.n * Unit[l.unit] \in Int
  BY <1>1
<1> QED BY <1>2, WrappedInt DEF parseInodeCount

LEMMA CountedIsExact == TypeOK /\ Counted => CountsExact
<1> SUFFICES ASSUME TypeOK, Counted, NEW l \in limits,
                    LimitOf(l[1]).n * Unit[LimitOf(l[1]).unit] <= MaxInt
             PROVE  l[2] = LimitOf(l[1]).n * Unit[LimitOf(l[1]).unit]
  BY DEF CountsExact
<1>1. PICK f \in {"maxNumInodes", "inodeLimit"} :
        l = <<f, parseInodeCount(LimitOf(f))>> /\ LimitOf(f).n \in 0..MaxInt
  BY DEF Counted
<1> DEFINE asked == LimitOf(f).n * Unit[LimitOf(f).unit]
<1>2. LimitOf(f).n \in Nat /\ Unit[LimitOf(f).unit] \in Nat /\ MaxInt \in Nat
  <2>1. LimitOf(f).unit \in Suffix
    BY LimitType DEF TypeOK, Limit
  <2>2. MaxInt \in Nat /\ Unit[LimitOf(f).unit] \in Nat
    BY <2>1, FilesetAssumption
  <2> QED BY <1>1, <2>2
<1>3. asked \in Nat /\ asked <= MaxInt
  BY <1>1, <1>2, ProductNat
<1>4. Wrapped(asked) = asked
  <2> HIDE DEF asked
  <2> QED BY <1>2, <1>3, WrappedFits
<1> QED BY <1>1, <1>4 DEF parseInodeCount

-----------------------------------------------------------------------------
(* What a change does to the filesets *)

\* A fileset that is made, changed or renamed keeps the listing in order as
\* long as its name is nobody else's.
LEMMA BecomesKeepsListing ==
  ASSUME IInv, NEW i \in Id, NEW f \in Fileset, Becomes(i, f), command' = command,
         f = Absent \/ (f.name \in Name /\ \A j \in Live : filesets[j].name = f.name => j = i)
  PROVE  /\ filesets' \in [Id -> Fileset] /\ held' \in SUBSET Id
         /\ Listing'
         /\ held \subseteq held'
<1> USE DEF IInv, TypeOK, Becomes
<1>1. filesets' = [filesets EXCEPT ![i] = f] /\ filesets' \in [Id -> Fileset]
  OBVIOUS
<1>2. \A j \in Id : j # i => filesets'[j] = filesets[j]
  BY <1>1
<1>3. filesets'[i] = f
  BY <1>1
<1>4. held' \in SUBSET Id /\ held \subseteq held'
  OBVIOUS
<1>5. \A j \in Live' : filesets'[j].name \in Name
  BY <1>2, <1>3 DEF Live, Listing
<1>6. \A j, k \in Live' : filesets'[j].name = filesets'[k].name => j = k
  BY <1>2, <1>3 DEF Live, Listing
<1>7. LinkedAt(Sought)' \subseteq held'
  BY <1>2, <1>3 DEF Live, LinkedAt, Listing, Sought, Trimmed
<1> QED BY <1>1, <1>4, <1>5, <1>6, <1>7 DEF Listing

\* The filesets, once one of them has become something, as Free sees them.
LEMMA FreeName ==
  ASSUME NEW n \in Name, Free(n), NEW j \in Live
  PROVE  filesets[j].name # n
BY DEF Free, Named

LEMMA AbsentFileset == Absent \in Fileset
BY DEF Absent, Fileset

-----------------------------------------------------------------------------
LEMMA FilesetInit == Init => IInv
<1> SUFFICES ASSUME Init PROVE IInv
  OBVIOUS
<1> USE FilesetAssumption DEF Init
<1>1. TypeOK
  BY DEF TypeOK, Phase, LinkedAt, Live
<1>2. Listing
  BY DEF Listing, Live, LinkedAt, Fileset, Absent
<1>3. Chosen /\ Counted /\ JunctionHitUnlessRenamed
  BY DEF Chosen, Counted, JunctionHitUnlessRenamed
<1> QED BY <1>1, <1>2, <1>3 DEF IInv

\* The filesets stand still in what the command does by itself.
LEMMA ListingStays == Listing /\ UNCHANGED <<filesets, command, held>> => Listing'
BY DEF Listing, Live, LinkedAt, Sought, Trimmed

LEMMA CommandStep ==
  ASSUME IInv, TakeNames \/ FindByJunction \/ TakeParameters \/ DefaultJunction \/ RequestFails
  PROVE  IInv'
<1> USE DEF IInv
<1>1. UNCHANGED <<filesets, command, hit, held, renamed>>
  BY DEF TakeNames, FindByJunction, TakeParameters, DefaultJunction, RequestFails
<1>2. Listing' /\ (JunctionHitUnlessRenamed)'
  BY <1>1, ListingStays DEF JunctionHitUnlessRenamed, ByJunction
<1>3. Live' = Live
  BY <1>1 DEF Live
<1>4. command \in Command
  BY FilesetAssumption DEF TypeOK
<1>5. CASE TakeNames
  <2>1. TypeOK'
    BY <1>5, <1>1, <1>4, FilesetAssumption DEF TakeNames, TypeOK, Phase, Exit, Command
  <2>2. Chosen'
    BY <1>5, <1>1, <1>3, <1>4 DEF TakeNames, Chosen, Exit, ByJunction, Command
  <2>3. Counted'
    BY <1>5, <1>1 DEF TakeNames, Counted, LimitOf
  <2> QED BY <1>2, <2>1, <2>2, <2>3
<1>6. CASE FindByJunction
  <2>1. TypeOK'
    BY <1>6, <1>1 DEF FindByJunction, TypeOK, Phase, Exit, Listing
  <2>2. Chosen'
    <3>1. CASE phase' = "exited"
      BY <3>1, <1>1, <1>6 DEF Chosen, FindByJunction
    <3>2. CASE phase' # "exited"
      <4>1. PICK i \in Live : AtJunction(i) /\ fileset' = filesets[i].name
        BY <1>6, <3>2 DEF FindByJunction, Exit
      <4>2. i \in held /\ fileset' \in Name
        BY <4>1 DEF AtJunction, Listing, LinkedAt
      <4> QED BY <4>1, <4>2, <1>1, <1>3, <1>6 DEF Chosen, FindByJunction, ByJunction
    <3> QED BY <3>1, <3>2
  <2>3. Counted'
    BY <1>6, <1>1 DEF FindByJunction, Counted, LimitOf
  <2> QED BY <1>2, <2>1, <2>2, <2>3
<1>7. CASE TakeParameters
  <2>1. limits' \subseteq {"maxNumInodes", "inodeLimit"} \X Int /\ Counted'
    <3>1. CASE limits' = limits
      BY <3>1, <1>1 DEF TypeOK, Counted, LimitOf
    <3>2. CASE limits' # limits
      <4>1. /\ limits' = {<<f, parseInodeCount(LimitOf(f))>> : f \in Given}
            /\ \A f \in Given : Parses(LimitOf(f))
        BY <1>7, <3>2 DEF TakeParameters
      <4>2. Given \subseteq {"maxNumInodes", "inodeLimit"}
        BY DEF Given, Sent
      <4>3. \A f \in Given : parseInodeCount(LimitOf(f)) \in Int /\ LimitOf(f).n \in 0..MaxInt
        BY <4>1, LimitType, CountInt DEF Parses, TypeOK
      <4>4. \A f : LimitOf(f)' = LimitOf(f)
        BY <1>1 DEF LimitOf
      <4> QED BY <4>1, <4>2, <4>3, <4>4 DEF Counted, parseInodeCount
    <3> QED BY <3>1, <3>2
  <2>2. TypeOK'
    BY <1>7, <1>1, <1>4, <2>1 DEF TakeParameters, TypeOK, Phase, Exit, Command
  <2>3. Chosen'
    BY <1>7, <1>1, <1>3 DEF TakeParameters, Chosen, Exit, ByJunction
  <2> QED BY <1>2, <2>1, <2>2, <2>3
<1>8. CASE DefaultJunction
  <2>1. TypeOK'
    BY <1>8, <1>1, FilesetAssumption DEF DefaultJunction, TypeOK, Phase, Exit, Chosen
  <2>2. Chosen'
    BY <1>8, <1>1, <1>3 DEF DefaultJunction, Chosen, Exit, ByJunction
  <2>3. Counted'
    BY <1>8, <1>1 DEF DefaultJunction, Counted, LimitOf
  <2> QED BY <1>2, <2>1, <2>2, <2>3
<1>9. CASE RequestFails
  <2>1. TypeOK' /\ Chosen' /\ Counted'
    BY <1>9, <1>1 DEF RequestFails, request, TypeOK, Phase, Exit, Chosen, Counted, LimitOf
  <2> QED BY <1>2, <2>1
<1> QED BY <1>5, <1>6, <1>7, <1>8, <1>9

\* The write changes the fileset that has the name, which by junction is the
\* one that was seen there.
LEMMA WriteStep == ASSUME IInv, Write PROVE IInv'
<1> USE DEF IInv
<1>1. PICK i \in Id : ((i \in Named(fileset) /\ Effect(i)) \/ Creation(i)) /\ hit' = {i}
  BY DEF Write
<1>2. /\ phase = "write" /\ phase' = "exited" /\ exit' = "ok"
      /\ UNCHANGED <<command, fileset, junction, limits, renamed>>
  BY DEF Write, Exit, request
<1>3. command \in Command /\ filesets[i] \in Fileset /\ fileset \in Name
  BY <1>2, FilesetAssumption DEF TypeOK, Chosen
<1>4. PICK f \in Fileset :
        /\ Becomes(i, f)
        /\ f = Absent \/ (f.name \in Name /\ \A j \in Live : filesets[j].name = f.name => j = i)
  <2>1. CASE i \in Named(fileset) /\ Effect(i)
    <3>1. i \in Live /\ filesets[i].name \in Name
      BY <2>1 DEF Named, Listing
    <3>2. CASE command.verb = "change" /\ (command.rename = None \/ Free(command.rename))
               /\ Becomes(i, Changed(filesets[i]))
      <4>1. Changed(filesets[i]) \in Fileset
        BY <1>3 DEF Changed, Fileset, Command
      <4>2. CASE command.rename = None
        BY <3>1, <3>2, <4>1, <4>2 DEF Changed, Listing
      <4>3. CASE command.rename # None
        <5>1. command.rename \in Name /\ Changed(filesets[i]).name = command.rename
          BY <1>3, <4>3 DEF Changed, Command, Fileset
        <5> QED BY <3>2, <4>1, <4>3, <5>1, FreeName
      <4> QED BY <4>2, <4>3
    <3>3. CASE Becomes(i, Absent)
      BY <3>3, AbsentFileset
    <3>4. CASE Unused(Place) /\ Becomes(i, [filesets[i] EXCEPT !.path = Place])
      <4>1. [filesets[i] EXCEPT !.path = Place] \in Fileset
            /\ [filesets[i] EXCEPT !.path = Place].name = filesets[i].name
        BY <1>3, <3>4 DEF Fileset, Unused
      <4> QED BY <3>1, <3>4, <4>1 DEF Listing
    <3>5. CASE Becomes(i, [filesets[i] EXCEPT !.path = Unlinked])
      <4>1. [filesets[i] EXCEPT !.path = Unlinked] \in Fileset
            /\ [filesets[i] EXCEPT !.path = Unlinked].name = filesets[i].name
        BY <1>3 DEF Fileset
      <4> QED BY <3>1, <3>5, <4>1 DEF Listing
    <3> QED BY <2>1, <3>2, <3>3, <3>4, <3>5 DEF Effect
  <2>2. CASE Creation(i)
    <3>1. PICK p \in Junction \cup {Unlinked} : Becomes(i, [name |-> fileset, path |-> p])
      BY <2>2 DEF Creation, Unused
    <3>2. [name |-> fileset, path |-> p] \in Fileset /\ Free(fileset)
      BY <1>3, <2>2, <3>1 DEF Fileset, Creation
    <3> QED BY <1>3, <3>1, <3>2, FreeName
  <2> QED BY <1>1, <2>1, <2>2
<1>5. filesets' \in [Id -> Fileset] /\ held' \in SUBSET Id /\ Listing' /\ held \subseteq held'
  BY <1>2, <1>4, BecomesKeepsListing
<1>6. TypeOK'
  BY <1>1, <1>2, <1>5 DEF TypeOK, Phase
<1>7. Chosen' /\ Counted'
  BY <1>2 DEF Chosen, Counted, LimitOf
<1>8. JunctionHitUnlessRenamed'
  <2> SUFFICES ASSUME ByJunction, ~renamed PROVE i \in held'
    BY <1>1, <1>2 DEF JunctionHitUnlessRenamed, ByJunction
  <2>1. command.verb # "create" /\ \E k \in Live : k \in held /\ filesets[k].name = fileset
    BY <1>2 DEF Chosen
  <2>2. i \in Named(fileset)
    BY <1>1, <2>1 DEF Creation
  <2> QED BY <1>5, <2>1, <2>2 DEF Named, Listing
<1> QED BY <1>5, <1>6, <1>7, <1>8

\* Other administrators: whoever only links, unlinks and creates leaves the
\* name the command has settled on where it is.
LEMMA OthersStep == ASSUME IInv, NEW i \in Id, Others(i) PROVE IInv'
<1> USE DEF IInv
<1>1. /\ phase # "exited" /\ hit = {}
      /\ UNCHANGED <<command, phase, fileset, junction, limits, hit, exit>>
  BY DEF Others, request, Chosen
<1>2. filesets[i] \in Fileset
  BY DEF TypeOK
<1>3. PICK f \in Fileset :
        /\ Becomes(i, f)
        /\ f = Absent \/ (f.name \in Name /\ \A j \in Live : filesets[j].name = f.name => j = i)
        /\ renamed' = TRUE \/ (renamed' = renamed /\ f # Absent /\ (i \in Live => f.name = filesets[i].name))
  <2>1. CASE \E n \in Name : Free(n) /\ i \in Live /\ renamed' = TRUE
                             /\ Becomes(i, [filesets[i] EXCEPT !.name = n])
    <3>1. PICK n \in Name : Free(n) /\ Becomes(i, [filesets[i] EXCEPT !.name = n])
      BY <2>1
    <3>2. [filesets[i] EXCEPT !.name = n] \in Fileset /\ [filesets[i] EXCEPT !.name = n].name = n
      BY <1>2 DEF Fileset
    <3> QED BY <2>1, <3>1, <3>2, FreeName
  <2>2. CASE Becomes(i, Absent) /\ renamed' = TRUE
    BY <2>2, AbsentFileset
  <2>3. CASE i \notin Live /\ renamed' = renamed
             /\ \E n \in Name : Free(n) /\ Becomes(i, [name |-> n, path |-> Unlinked])
    <3>1. PICK n \in Name : Free(n) /\ Becomes(i, [name |-> n, path |-> Unlinked])
      BY <2>3
    <3>2. [name |-> n, path |-> Unlinked] \in Fileset /\ [name |-> n, path |-> Unlinked] # Absent
      BY FilesetAssumption DEF Fileset, Absent
    <3> QED BY <2>3, <3>1, <3>2, FreeName
  <2>4. CASE i \in Live /\ renamed' = renamed
             /\ \E p \in Junction \cup {Unlinked} : Becomes(i, [filesets[i] EXCEPT !.path = p])
    <3>1. PICK p \in Junction \cup {Unlinked} : Becomes(i, [filesets[i] EXCEPT !.path = p])
      BY <2>4
    <3>2. [filesets[i] EXCEPT !.path = p] \in Fileset
          /\ [filesets[i] EXCEPT !.path = p].name = filesets[i].name
      BY <1>2 DEF Fileset
    <3>3. filesets[i].name \in Name
      BY <2>4 DEF Listing
    <3>4. [filesets[i] EXCEPT !.path = p] # Absent
      BY <3>2, <3>3, FilesetAssumption DEF Absent
    <3> QED BY <2>4, <3>1, <3>2, <3>3, <3>4 DEF Listing
  <2> QED BY <2>1, <2>2, <2>3, <2>4 DEF Others, OthersName, OthersLink, Unused
<1>4. filesets' \in [Id -> Fileset] /\ held' \in SUBSET Id /\ Listing' /\ held \subseteq held'
  <2>1. command' = command
    BY <1>1
  <2>2. /\ Becomes(i, f)
        /\ f = Absent \/ (f.name \in Name /\ \A j \in Live : filesets[j].name = f.name => j = i)
    BY <1>3
  <2> QED BY <2>1, <2>2, BecomesKeepsListing
<1>5. renamed' \in BOOLEAN /\ (renamed => renamed')
  <2>1. renamed \in BOOLEAN
    BY DEF TypeOK
  <2>2. CASE renamed' = TRUE
    BY <2>2
  <2>3. CASE renamed' = renamed
    BY <2>1, <2>3
  <2> QED BY <1>3, <2>2, <2>3
<1>6. TypeOK' /\ Counted' /\ JunctionHitUnlessRenamed'
  BY <1>1, <1>4, <1>5 DEF TypeOK, Counted, LimitOf, JunctionHitUnlessRenamed
<1>7. Chosen'
  <2>1. CASE renamed'
    BY <1>1, <2>1 DEF Chosen, ByJunction
  <2>2. CASE ~renamed'
    <3>1. \A k \in Live : k \in Live' /\ filesets'[k].name = filesets[k].name
      BY <1>3, <2>2 DEF Becomes, TypeOK, Live
    <3> QED BY <1>1, <1>4, <1>5, <2>2, <3>1 DEF Chosen, ByJunction
  <2> QED BY <2>1, <2>2
<1> QED BY <1>4, <1>6, <1>7

LEMMA FilesetStep == IInv /\ [Next]_vars => IInv'
<1> SUFFICES ASSUME IInv, [Next]_vars PROVE IInv'
  OBVIOUS
<1>1. CASE UNCHANGED vars
  BY <1>1 DEF IInv, vars, TypeOK, Listing, Live, LinkedAt, Sought, Trimmed, Chosen, ByJunction,
     Counted, LimitOf, JunctionHitUnlessRenamed
<1> QED BY <1>1, CommandStep, WriteStep, OthersStep DEF Next

LEMMA FilesetInvariant == Spec => []IInv
BY FilesetInit, FilesetStep, PTL DEF Spec

-----------------------------------------------------------------------------
\* Every variable of a fileset command and of the GUI's filesets has its type:
\* in particular the name a write carries is one of a fileset.
THEOREM FilesetTypeCorrect == Spec => []TypeOK
<1>1. IInv => TypeOK
  BY DEF IInv
<1> QED BY <1>1, FilesetInvariant, PTL

\* -J leads to a fileset that was linked there while the command ran, for any
\* number of filesets and administrators, unless a name changed hands.
THEOREM JunctionsHit == Spec => []JunctionHitUnlessRenamed
<1>1. IInv => JunctionHitUnlessRenamed
  BY DEF IInv
<1> QED BY <1>1, FilesetInvariant, PTL

\* A count that fits is sent as it was written, whatever the width of the
\* integers and the units.
THEOREM CountsAreExact == Spec => []CountsExact
<1>1. IInv => CountsExact
  BY CountedIsExact DEF IInv
<1> QED BY <1>1, FilesetInvariant, PTL
=============================================================================
