----------------------------- MODULE MCMmctlArgs -----------------------------
(* MmctlLines for TLC.  Values look like options, operands like targets with  *)
(* parts missing and like lists.                                             *)
EXTENDS MmctlLines, TLC

MCMaxItems == [
  mmlsquota |-> 3, mmrepquota |-> 3, mmlsfs |-> 3, mmlsfileset |-> 3, mmchfileset |-> 3,
  mmunlinkfileset |-> 3, mmlinkfileset |-> 3, mmdelfileset |-> 3, mmcrfileset |-> 2,
  mmcrtoken |-> 3, mmdeltoken |-> 2, mmlscluster |-> 1, mmlstoken |-> 1]

\* Limits are numbers, or one and something else, or something else.
MCValues ==
  [c \in CommandName |->
     IF c = "mmchfileset" THEN {Word("1M"), Word("1M:-Y"), Short("-Y", Nothing)}
     ELSE IF c = "mmcrfileset" THEN {Word("1M"), Word("1M:"), Word("1M:-Y"), Short("-Y", Nothing)}
     ELSE {Word("1M"), Short("-Y", Nothing), Short("-h", Nothing), DoubleDash}]
MCColon ==
  ("fs0:f" :> <<"fs0", "f">>) @@ (":f" :> <<"", "f">>)
    @@ ("1M:" :> <<"1M", "">>) @@ ("1M:-Y" :> <<"1M", "-Y">>)
MCInodeCounts == {"1M"}
MCComma == "f,root," :> <<"f", "root", "">>
MCSizes == {"1M"}
MCWidths == 1..2
MCCharacters == {":", "%", "3", "A", "-"}
MCMaxText == <<3, 2, 1>>

\* f shares the inode space of root, whose figures the GUI reports for it too;
\* g has its own.
Info(name, space, owner, max, allocated, free, spaceUsed, used) ==
  [name |-> name, inodeSpace |-> space, isInodeSpaceOwner |-> owner, max |-> max,
   allocated |-> allocated, free |-> free, spaceUsed |-> spaceUsed, used |-> used]
MCGui == "fs0" :> <<Info("root", 0, TRUE, 90, 50, 20, 30, 22), Info("f", 0, FALSE, 90, 50, 20, 30, 8),
                    Info("g", 1, TRUE, 40, 10, 7, 3, 3)>>

MCOperands ==
  [c \in CommandName |->
     IF c \in {"mmlsquota", "mmrepquota"} THEN {"fs0", "fs0:f", ":f"}
     ELSE IF c \in {"mmcrtoken", "mmlsfileset"} THEN {"fs0", "f,root,"}
     ELSE IF c = "mmlsfs" THEN {"fs0", "all", ".."}
     ELSE {"fs0", "f", ".."}]
=============================================================================
