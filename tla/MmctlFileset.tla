---------------------------- MODULE MmctlFileset ----------------------------
(***************************************************************************)
(* The fileset commands of mmctl that change one file system: mmcrfileset,  *)
(* mmchfileset, mmdelfileset, mmlinkfileset and mmunlinkfileset             *)
(* (cmd/mmctl/fileset.go).  A command first works out which fileset it is   *)
(* about, by the name it is given or by listing the filesets and comparing  *)
(* junctions, then its parameters, and last sends one write that names the  *)
(* fileset.  Other administrators change the filesets between its requests. *)
(*                                                                         *)
(* A fileset has an identity here that outlives a change of name, so that   *)
(* the fileset meant and the fileset hit can be told apart.                 *)
(***************************************************************************)
EXTENDS Integers, FiniteSets

CONSTANTS
  Id,        \* the identities filesets can have
  Name,      \* fileset names
  Junction,  \* the paths filesets can be linked at
  TrimSlash, \* what -J may be given, and what that is without a "/" at its end
  Default,   \* the junction below the mount point for each name: [Name -> Junction]
  Existing,  \* the filesets there are at first: [Id -> [name, path]]
  Commands,  \* the commands an operator may give
  Unit,      \* what K, M and G stand for: 1024, 1024^2 and 1024^3
  MaxInt     \* the largest int64, 2^63 - 1

Verb == {"create", "change", "delete", "link", "unlink"}

None == "none"       \* no name, no junction, no such fileset
Unlinked == "--"     \* the path of a fileset that is linked nowhere

\* --inode-limit as the operator writes it: a number with or without a unit,
\* or something else ("junk"); absent when the option is not given.
Suffix == {"", "K", "M", "G"}
Limit == [form : {"absent", "junk", "count"}, n : Int, unit : Suffix]

\* operand: FilesetName; junction: -J, None when it is not given or empty;
\* rename: mmchfileset -j; other: an attribute that is passed on as it is (-t,
\* --allow-permission-change).
Command ==
  [verb : Verb, operand : Name \cup {None}, junction : DOMAIN TrimSlash \cup {None},
   rename : Name \cup {None}, limit : Limit, prealloc : Limit, other : BOOLEAN]

Fileset == [name : Name \cup {None}, path : Junction \cup {Unlinked}]
Absent == [name |-> None, path |-> Unlinked]

ASSUME FilesetAssumption ==
  /\ None \notin Name /\ None \notin Junction /\ None # Unlinked /\ Unlinked \notin Junction
  /\ None \notin DOMAIN TrimSlash
  /\ \A j \in Junction : j \in DOMAIN TrimSlash /\ TrimSlash[j] = j
  /\ Default \in [Name -> Junction]
  /\ Existing \in [Id -> Fileset]
  /\ \A i \in Id : Existing[i].name = None => Existing[i] = Absent
  /\ \A i, j \in Id : Existing[i].name = Existing[j].name => i = j \/ Existing[i] = Absent
  /\ Commands \subseteq Command
  /\ Unit \in [Suffix -> Nat \ {0}] /\ Unit[""] = 1
  /\ MaxInt \in Nat

VARIABLES
  filesets,  \* the GUI's filesets, Absent where there is none
  command,   \* the command
  phase,     \* what it does next
  fileset,   \* the name the write will carry
  junction,  \* the junction a link or a create will carry
  limits,    \* the <<field, count>> pairs of the body
  hit,       \* the fileset the write has changed
  exit       \* what the command ends with

\* What happened around the command.
VARIABLES
  held,      \* the filesets seen at the path -J asks for since it began
  renamed    \* another administrator has renamed or deleted a fileset

request == <<fileset, junction, limits>>
vars == <<filesets, command, phase, fileset, junction, limits, hit, exit, held, renamed>>

Phase == {"names", "list", "parameters", "mount", "write", "exited"}

TypeOK ==
  /\ filesets \in [Id -> Fileset]
  /\ command \in Commands
  /\ phase \in Phase
  /\ fileset \in Name \cup {None}
  /\ junction \in DOMAIN TrimSlash \cup {None}
  /\ limits \subseteq {"maxNumInodes", "inodeLimit"} \X Int
  /\ hit \in SUBSET Id
  /\ exit \in {"none", "ok", "usage", "failed"}
  /\ held \in SUBSET Id
  /\ renamed \in BOOLEAN

Live == {i \in Id : filesets[i] # Absent}
Named(n) == {i \in Live : filesets[i].name = n}
LinkedAt(j) == {i \in Live : filesets[i].path = j}

\* strings.TrimSuffix, of a junction if there is one.
Trimmed(j) == IF j = None THEN None ELSE TrimSlash[j]
Sought == Trimmed(command.junction)

Init ==
  /\ filesets = Existing
  /\ command \in Commands
  /\ phase = "names"
  /\ fileset = None
  /\ junction = None
  /\ limits = {}
  /\ hit = {}
  /\ exit = "none"
  /\ held = LinkedAt(Sought)
  /\ renamed = FALSE

-----------------------------------------------------------------------------
(* The command *)

Exit(how) == phase' = "exited" /\ exit' = how

\* deviceAndFileset, and the operands of mmcrfileset: the name given, or the
\* junction to look up.
TakeNames ==
  /\ phase = "names"
  /\ \/ /\ command.operand # None
        /\ fileset' = command.operand
        /\ phase' = "parameters"
        /\ UNCHANGED exit
     \/ /\ command.operand = None
        /\ IF command.verb # "create" /\ command.junction # None
           THEN phase' = "list" /\ UNCHANGED exit
           ELSE Exit("usage")
        /\ UNCHANGED fileset
  /\ UNCHANGED <<filesets, command, junction, limits, hit, held, renamed>>

\* Mutant of AtJunction: whatever the listing has.
AtAnyJunction(i) == filesets[i].path # Unlinked

\* A fileset of the listing with the path asked for, which is that of every
\* unlinked fileset when -J is "--".
AtJunction(i) == filesets[i].path = Sought

\* Mutant of FindByJunction: nothing found leaves the name empty.
FindByJunctionEmpty ==
  /\ phase = "list"
  /\ \/ \E i \in Live : AtJunction(i) /\ fileset' = filesets[i].name
     \/ ~(\E i \in Live : AtJunction(i)) /\ fileset' = ""
  /\ phase' = "parameters"
  /\ UNCHANGED <<filesets, command, junction, limits, hit, exit, held, renamed>>

FindByJunction ==
  /\ phase = "list"
  /\ \/ /\ \E i \in Live :
             /\ AtJunction(i)
             /\ fileset' = filesets[i].name
        /\ phase' = "parameters"
        /\ UNCHANGED exit
     \/ /\ ~\E i \in Live : AtJunction(i)
        /\ Exit("failed")
        /\ UNCHANGED fileset
  /\ UNCHANGED <<filesets, command, junction, limits, hit, held, renamed>>

\* parseInodeCount: ParseInt refuses a number that is no int64, a negative
\* one is refused too; the product with the unit is an int64.
Parses(l) == l.form = "count" /\ l.n \in 0..MaxInt
Wrapped(x) == ((x + MaxInt + 1) % (2 * (MaxInt + 1))) - (MaxInt + 1)
\* Mutant of parseInodeCount: the unit is cut off and forgotten.
parseInodeCountNoUnit(l) == l.n

parseInodeCount(l) == Wrapped(l.n * Unit[l.unit])

\* mmcrfileset sends both halves of Max[:Preallocated], mmchfileset the first.
Sent == {"maxNumInodes"} \cup (IF command.verb = "create" THEN {"inodeLimit"} ELSE {})
LimitOf(f) == IF f = "maxNumInodes" THEN command.limit ELSE command.prealloc
Given == {f \in Sent : LimitOf(f).form # "absent"}

\* The body of the request; mmchfileset wants at least one attribute.
NothingToChange ==
  command.verb = "change" /\ command.rename = None /\ Given = {} /\ ~command.other

TakeParameters ==
  /\ phase = "parameters"
  /\ IF NothingToChange \/ \E f \in Given : ~Parses(LimitOf(f))
     THEN Exit("usage") /\ UNCHANGED <<junction, limits>>
     ELSE /\ limits' = {<<f, parseInodeCount(LimitOf(f))>> : f \in Given}
          /\ junction' = IF command.verb \in {"create", "link"} THEN command.junction ELSE None
          /\ phase' = IF command.verb = "link" /\ command.junction = None
                      THEN "mount" ELSE "write"
          /\ UNCHANGED exit
  /\ UNCHANGED <<filesets, command, fileset, hit, held, renamed>>

\* mmlinkfileset without -J: below the mount point, if there is one.
DefaultJunction ==
  /\ phase = "mount"
  /\ \/ junction' = Default[fileset] /\ phase' = "write" /\ UNCHANGED exit
     \/ Exit("failed") /\ UNCHANGED junction
  /\ UNCHANGED <<filesets, command, fileset, limits, hit, held, renamed>>

\* A request fails, or the GUI refuses it.
RequestFails ==
  /\ phase \in {"list", "write"}
  /\ Exit("failed")
  /\ UNCHANGED <<filesets, command, request, hit, held, renamed>>

-----------------------------------------------------------------------------
(* The GUI does the write, to the fileset that has the name by then. *)

\* Where it links a fileset, given a junction with or without a "/" at its end.
Place == Trimmed(junction)

Free(n) == Named(n) = {}
Unused(j) == j \in Junction /\ LinkedAt(j) = {}

\* held follows what has the path that -J asks for.
Becomes(i, f) ==
  /\ filesets' = [filesets EXCEPT ![i] = f]
  /\ held' = IF f # Absent /\ f.path = Sought THEN held \cup {i} ELSE held

Changed(f) == IF command.rename = None THEN f ELSE [f EXCEPT !.name = command.rename]

Effect(i) ==
  \/ /\ command.verb = "change"
     /\ command.rename = None \/ Free(command.rename)
     /\ Becomes(i, Changed(filesets[i]))
  \/ /\ command.verb = "delete"
     /\ filesets[i].path = Unlinked
     /\ Becomes(i, Absent)
  \/ /\ command.verb = "link"
     /\ Unused(Place)
     /\ Becomes(i, [filesets[i] EXCEPT !.path = Place])
  \/ /\ command.verb = "unlink"
     /\ filesets[i].path # Unlinked
     /\ Becomes(i, [filesets[i] EXCEPT !.path = Unlinked])

Creation(i) ==
  /\ command.verb = "create"
  /\ i \notin Live /\ Free(fileset)
  /\ \/ junction = None /\ Becomes(i, [name |-> fileset, path |-> Unlinked])
     \/ Unused(Place) /\ Becomes(i, [name |-> fileset, path |-> Place])

Write ==
  /\ phase = "write"
  /\ \E i \in Id :
       /\ (i \in Named(fileset) /\ Effect(i)) \/ Creation(i)
       /\ hit' = {i}
  /\ Exit("ok")
  /\ UNCHANGED <<command, request, renamed>>

-----------------------------------------------------------------------------
(* Other administrators. *)

OthersName(i) ==
  /\ \/ i \in Live /\ \E n \in Name : Free(n) /\ Becomes(i, [filesets[i] EXCEPT !.name = n])
     \/ i \in Live /\ filesets[i].path = Unlinked /\ Becomes(i, Absent)
  /\ renamed' = TRUE

OthersLink(i) ==
  /\ \/ i \notin Live /\ \E n \in Name : Free(n) /\ Becomes(i, [name |-> n, path |-> Unlinked])
     \/ i \in Live /\ \E j \in Junction : Unused(j) /\ Becomes(i, [filesets[i] EXCEPT !.path = j])
     \/ i \in Live /\ filesets[i].path # Unlinked /\ Becomes(i, [filesets[i] EXCEPT !.path = Unlinked])
  /\ UNCHANGED renamed

Others(i) ==
  /\ phase # "exited"
  /\ OthersName(i) \/ OthersLink(i)
  /\ UNCHANGED <<command, phase, request, hit, exit>>

Next ==
  \/ TakeNames
  \/ FindByJunction
  \/ TakeParameters
  \/ DefaultJunction
  \/ RequestFails
  \/ Write
  \/ \E i \in Id : Others(i)

Spec == Init /\ [][Next]_vars

-----------------------------------------------------------------------------
(* Properties *)

\* A command that is given a junction instead of a name.
ByJunction == command.operand = None /\ command.junction # None

\* What a command given -J changes is a fileset that was linked there while it
\* ran, or was unlinked if -J is "--", whatever is linked and unlinked between
\* its two requests, as long as no name changes hands (fileset.go:522-535).
JunctionHitUnlessRenamed == ByJunction /\ ~renamed => hit \subseteq held

\* A count that an int64 can hold reaches the GUI as the operator wrote it, in
\* the field it was meant for (fileset.go:343-359, 367-384).  One whose product
\* with its unit leaves int64 is not refused: it wraps and is sent.
CountsExact ==
  \A l \in limits :
    LET asked == LimitOf(l[1]).n * Unit[LimitOf(l[1]).unit] IN
    asked <= MaxInt => l[2] = asked
=============================================================================
