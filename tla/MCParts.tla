------------------------------ MODULE MCParts ------------------------------
(***************************************************************************)
(* The parts of the kernel that keep their state to themselves, for TLC,   *)
(* side by side: a behaviour is one part's, and the others stay in their   *)
(* initial states.                                                         *)
(***************************************************************************)
EXTENDS Mouse, Console, History, Heap, Arith64, Calendar, Paths, LongNames, Contexts

\* Values that a configuration cannot write itself.
MCDeltas == {-255, 2, 255}
MCVideoMode == [width |-> 4, height |-> 2]
MCScreens == {[width |-> 2, height |-> 3]}
MCNameLength == [a |-> 1, b |-> 2]
MCTyped == {<<"a">>, <<"b", "a">>}

\* Characters at both ends of each length in bytes and beside the surrogates; and first
\* bytes that are none, characters cut short, longer than need be, surrogates, too large.
MCWholePieces ==
  {<<97>>, <<127>>, <<194, 128>>, <<223, 191>>, <<224, 160, 128>>, <<237, 159, 191>>,
   <<238, 128, 128>>, <<239, 191, 191>>, <<240, 144, 128, 128>>, <<244, 143, 191, 191>>}
MCOddPieces ==
  {<<128>>, <<192, 128>>, <<195>>, <<224, 159, 191>>, <<237, 160, 128>>,
   <<240, 143, 191, 191>>, <<244, 144, 128, 128>>, <<248>>}

VARIABLE part           \* the part that runs

MCInit ==
  /\ part \in {"mouse", "console", "heap", "division", "calendar", "paths", "history",
              "names", "contexts"}
  /\ MouseInit /\ ConInit /\ Init
  /\ HistInit /\ (part = "history" \/ memory[0] = <<>>)
  /\ CalInit /\ (part = "calendar" \/ \A year \in Eras : year >= tm.year)
  /\ PathInit /\ (part = "paths" \/ \A name \in Components : tree[RootDir][name] = NoEntry)
  /\ IF part = "division" THEN DivInit ELSE DivInit /\ function = "__divdi3" /\ given = <<0, 0>>
  /\ CtxInit /\ (part = "contexts" \/ ~usermode)
  /\ IF part = "names" THEN NameInit
     ELSE phase = "alias" /\ pieces = <<>> /\ utf16 = <<>> /\ parts = <<>> /\ listed = <<>>

MCNext ==
  /\ UNCHANGED part
  /\ \/ part = "mouse" /\ MouseNext
        /\ UNCHANGED <<conVars, vars, divVars, calVars, pathVars, histVars, nameVars, ctxVars>>
     \/ part = "console" /\ ConNext
        /\ UNCHANGED <<mouseVars, vars, divVars, calVars, pathVars, histVars, nameVars, ctxVars>>
     \/ part = "heap" /\ Next
        /\ UNCHANGED <<mouseVars, conVars, divVars, calVars, pathVars, histVars, nameVars, ctxVars>>
     \/ part = "division" /\ DivNext
        /\ UNCHANGED <<mouseVars, conVars, vars, calVars, pathVars, histVars, nameVars, ctxVars>>
     \/ part = "calendar" /\ CalNext
        /\ UNCHANGED <<mouseVars, conVars, vars, divVars, pathVars, histVars, nameVars, ctxVars>>
     \/ part = "paths" /\ PathNext
        /\ UNCHANGED <<mouseVars, conVars, vars, divVars, calVars, histVars, nameVars, ctxVars>>
     \/ part = "history" /\ HistNext
        /\ UNCHANGED <<mouseVars, conVars, vars, divVars, calVars, pathVars, nameVars, ctxVars>>
     \/ part = "names" /\ NameNext
        /\ UNCHANGED <<mouseVars, conVars, vars, divVars, calVars, pathVars, histVars, ctxVars>>
     \/ part = "contexts" /\ CtxNext
        /\ UNCHANGED <<mouseVars, conVars, vars, divVars, calVars, pathVars, histVars, nameVars>>

MCVars == <<part, mouseVars, conVars, vars, divVars, calVars, pathVars,
            histVars, nameVars, ctxVars>>

MCSpec == MCInit /\ [][MCNext]_MCVars

-----------------------------------------------------------------------------
(* Properties.                                                             *)

\* The variables of the parts have their types: no line past its buffer, no
\* packet past its size, no pointer or cursor outside its range.
PartsTypeOK == MouseTypeOK /\ ConTypeOK /\ TypeOK /\ DivTypeOK /\ CtxTypeOK

\* Paths lead where they say, and no directory is lost, whatever was created, renamed
\* and removed (getpath, find_path_directory, fat_chdir, fat_rename).  A name comes out
\* of a directory as it went in, what is shown of a foreign name leads back to it, and
\* aliases are stable: KeptAsGiven, ShownCanBeGiven and AliasIsStable (utf8_to_utf16,
\* utf16_to_utf8, write_lfn_entry, strfilenamedos).
PathsAndNamesAreSound ==
  /\ part = "paths" => PathsLead
  /\ part = "names" => KeptAsGiven /\ ShownCanBeGiven /\ AliasIsStable

=============================================================================
