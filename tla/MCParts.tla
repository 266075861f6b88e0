------------------------------- MODULE MCParts -------------------------------
(***************************************************************************)
(* Three small components that share no state, side by side: the server of *)
(* the extension, the line splitter and the preferences.  A behaviour is   *)
(* one of them at work.                                                    *)
(***************************************************************************)
EXTENDS ExtensionServer, Preferences, TLC

CONSTANTS MAX_BUF_BYTES, MaxChunk, MaxLength  \* see LineSplitter

VARIABLES
  part,
  text, sp, byteOffset, lines, warning, told

L == INSTANCE LineSplitter

splitterVars == <<text, sp, byteOffset, lines, warning, told>>
partsVars    == <<part, serverVars, splitterVars, prefsVars>>

Symmetry == Permutations(Log)

PartsInit ==
  /\ part \in {"extension", "splitter", "preferences"}
  /\ ServerInit /\ L!Init /\ PrefsInit
  /\ part # "preferences" => storage = <<>>

PartsNext ==
  /\ \/ part = "extension"   /\ ServerNext   /\ UNCHANGED <<splitterVars, prefsVars>>
     \/ part = "splitter"    /\ L!Next /\ UNCHANGED <<serverVars, prefsVars>>
     \/ part = "preferences" /\ PrefsNext /\ UNCHANGED <<serverVars, splitterVars>>
  /\ UNCHANGED part

PartsSpec == PartsInit /\ [][PartsNext]_partsVars

\* The lines ingested, their offsets and the warnings are those of the file (LineSplitter).
SplitIsExact == L!SplitIsExact

=============================================================================
