---------------------------- MODULE Config_proofs ----------------------------
(***************************************************************************)
(* Theorems about Config, for any shell and any .env: which settings a     *)
(* process works with, and that an error tells what has to be set.         *)
(*                                                                         *)
(* The invariant follows the environment of the process.  Until somebody   *)
(* edits the .env it is the shell's or, after from_env, the shell's laid   *)
(* over the file's (Layering); from_env changes nothing a second time.     *)
(***************************************************************************)
EXTENDS Config, TLAPS

Values ==
  [text : {"none", "good", "bad", "raw"}, from : {"shell", "file", "edit"}]
Layering == [v \in Vars |-> Layered(v)]

(* What is read of a variable that the operator has repaired is good, and  *)
(* what the shell sets the process has.                                    *)
ShellOK ==
  /\ shell \in [Vars -> Values] /\ file \in [Vars -> Values] /\ env \in [Vars -> Values]
  /\ repaired \subseteq Vars /\ \A v \in repaired : shell[v].text = "good"
  /\ \A v \in Vars : Readable(shell, v) => env[v] = shell[v]

(* Whoever has been told the outcome of from_env, or was built after it,   *)
(* lives in an environment that from_env has completed.                    *)
EnvOK ==
  /\ ~edited => env \in {shell, Layering}
  /\ ~edited /\ (loaded \/ last # None \/ pkcs11 # None) => env = Layering
  /\ last # None => last = Parse(env)

Settings == ShellOK /\ EnvOK /\ FieldsAreLayered /\ TaprootAfterConfig

-----------------------------------------------------------------------------
(* Lemmas about from_env.                                                  *)

(* Parse has a first early return whenever one applies.                    *)
LEMMA FirstExists ==
  ASSUME NEW S \in SUBSET (1..7), S # {}
  PROVE  Min(S) \in S
<1>1. \E x \in S : \A y \in S : x =< y
  <2>1. PICK a \in S : TRUE
    OBVIOUS
  <2>2. CASE 1 \in S
    BY <2>2
  <2>3. CASE 1 \notin S /\ 2 \in S
    BY <2>3
  <2>4. CASE 1 \notin S /\ 2 \notin S /\ 3 \in S
    BY <2>4
  <2>5. CASE 1 \notin S /\ 2 \notin S /\ 3 \notin S /\ 4 \in S
    BY <2>5
  <2>6. CASE 1 \notin S /\ 2 \notin S /\ 3 \notin S /\ 4 \notin S
    BY <2>1, <2>6
  <2> QED
    BY <2>2, <2>3, <2>4, <2>5, <2>6
<1> QED
  BY <1>1 DEF Min

(* What an early return of from_env has to do with: the variable its error *)
(* names or, of a path that does not parse, the one it was read from.      *)
Reason(check) == IF check.kind = "path" THEN "PATH" ELSE check.var

(* It is a variable from_env reads, and its value is the reason.           *)
LEMMA ErrorIsCaused ==
  ASSUME NEW e \in [Vars -> Values], NEW i \in DOMAIN Checks(e), Checks(e)[i].fails
  PROVE  /\ Reason(Checks(e)[i]) \in Vars /\ e[Reason(Checks(e)[i])].text # "good"
         /\ Checks(e)[i].kind # "ok"
<1>1. ASSUME NEW kind, NEW v, NEW fails, Checks(e)[i] = Check(kind, v, fails),
             v \in Vars, kind \in {"missing", "invalid"}, fails => e[v].text # "good"
      PROVE  /\ Reason(Checks(e)[i]) \in Vars /\ e[Reason(Checks(e)[i])].text # "good"
             /\ Checks(e)[i].kind # "ok"
  <2>1. Check(kind, v, fails).fails = fails /\ Reason(Check(kind, v, fails)) = v
        /\ Check(kind, v, fails).kind = kind
    BY <1>1 DEF Check, Reason
  <2>2. fails
    BY <1>1, <2>1
  <2> QED
    BY <1>1, <2>1, <2>2
<1>2. i \in 1..7
  BY DEF Checks
<1>3. CASE i = 1
  <2>1. Checks(e)[1] = Check("missing", "LIB", ~Readable(e, Library(e)))
    BY DEF Checks
  <2>2. ~Readable(e, Library(e)) => e["LIB"].text # "good"
    BY DEF Library, FirstReadable, Readable
  <2>3. "LIB" \in Vars
    BY DEF Vars
  <2> QED
    BY <1>1, <1>3, <2>1, <2>2, <2>3
<1>4. CASE i = 2
  <2>1. Checks(e)[2] = Check("missing", "SLOT_LABEL", ~Readable(e, Slot(e)))
    BY DEF Checks
  <2>2. ~Readable(e, Slot(e)) => e["SLOT_LABEL"].text # "good"
    BY DEF Slot, FirstReadable, Readable
  <2>3. "SLOT_LABEL" \in Vars
    BY DEF Vars
  <2> QED
    BY <1>1, <1>4, <2>1, <2>2, <2>3
<1>5. CASE i = 3
  <2>1. Checks(e)[3] = Check("invalid", "SLOT_ID",
                              Slot(e) = "SLOT_ID" /\ Malformed(e, "SLOT_ID"))
    BY DEF Checks
  <2>2. (Slot(e) = "SLOT_ID" /\ Malformed(e, "SLOT_ID")) => e["SLOT_ID"].text # "good"
    BY DEF Malformed
  <2>3. "SLOT_ID" \in Vars
    BY DEF Vars
  <2> QED
    BY <1>1, <1>5, <2>1, <2>2, <2>3
<1>6. CASE i = 4
  <2>1. Checks(e)[4] = Check("missing", "PASSWORD", ~Readable(e, "PASSWORD"))
    BY DEF Checks
  <2>2. ~Readable(e, "PASSWORD") => e["PASSWORD"].text # "good"
    BY DEF Readable
  <2>3. "PASSWORD" \in Vars
    BY DEF Vars
  <2> QED
    BY <1>1, <1>6, <2>1, <2>2, <2>3
<1>7. CASE i = 5
  <2>1. Checks(e)[5] = Check("missing", "PATH", ~Readable(e, "PATH"))
    BY DEF Checks
  <2>2. ~Readable(e, "PATH") => e["PATH"].text # "good"
    BY DEF Readable
  <2>3. "PATH" \in Vars
    BY DEF Vars
  <2> QED
    BY <1>1, <1>7, <2>1, <2>2, <2>3
<1>8. CASE i = 6
  <2>1. Checks(e)[6] = Check("path", None, Malformed(e, "PATH"))
    BY DEF Checks
  <2>2. Reason(Checks(e)[6]) = "PATH" /\ Checks(e)[6].kind = "path"
    BY <2>1 DEF Check, Reason
  <2>3. Malformed(e, "PATH")
    BY <1>8, <2>1 DEF Check
  <2>4. "PATH" \in Vars
    BY DEF Vars
  <2> QED
    BY <1>8, <2>2, <2>3, <2>4 DEF Malformed
<1>9. CASE i = 7
  <2>1. Checks(e)[7] = Check("invalid", "PORT", Malformed(e, "PORT"))
    BY DEF Checks, PortCheck
  <2>2. Malformed(e, "PORT") => e["PORT"].text # "good"
    BY DEF Malformed
  <2>3. "PORT" \in Vars
    BY DEF Vars
  <2> QED
    BY <1>1, <1>9, <2>1, <2>2, <2>3
<1> QED
  BY <1>2, <1>3, <1>4, <1>5, <1>6, <1>7, <1>8, <1>9

LEMMA ParseFails ==
  ASSUME NEW e \in [Vars -> Values], Parse(e).res # "ok"
  PROVE  \E v \in Vars : /\ v = IF Parse(e).res = "path" THEN "PATH" ELSE Parse(e).var
                         /\ e[v].text # "good"
<1>1. Failing(e) # {}
  BY DEF Parse
<1>2. Failing(e) \in SUBSET (1..7)
  BY DEF Failing, Checks
<1>3. Min(Failing(e)) \in Failing(e)
  BY <1>1, <1>2, FirstExists
<1>4. /\ Parse(e).var = Checks(e)[Min(Failing(e))].var
      /\ Parse(e).res = Checks(e)[Min(Failing(e))].kind
  BY <1>1 DEF Parse
<1> QED
  BY <1>3, <1>4, ErrorIsCaused DEF Failing, Reason

LEMMA ParseSucceeds ==
  ASSUME NEW e \in [Vars -> Values], Parse(e).res = "ok"
  PROVE  /\ Parse(e).var = None
         /\ Parse(e).cfg =
              [library |-> e[Library(e)], slotBy |-> Slot(e), slot |-> e[Slot(e)],
               pin |-> e["PASSWORD"], path |-> e["PATH"],
               port |-> IF Readable(e, "PORT") THEN e["PORT"] ELSE Absent]
<1>1. Failing(e) = {}
  <2>1. SUFFICES ASSUME Failing(e) # {} PROVE FALSE
    OBVIOUS
  <2>2. Failing(e) \in SUBSET (1..7)
    BY DEF Failing, Checks
  <2>3. Min(Failing(e)) \in Failing(e)
    BY <2>1, <2>2, FirstExists
  <2>4. Parse(e).res = Checks(e)[Min(Failing(e))].kind
    BY <2>1 DEF Parse
  <2> QED
    BY <2>3, <2>4, ErrorIsCaused DEF Failing
<1> QED
  BY <1>1 DEF Parse

-----------------------------------------------------------------------------
(* Lemmas about the .env.                                                  *)

(* Loading it completes the shell's environment; loading it once more      *)
(* changes nothing.                                                        *)
LEMMA DotenvCompletes ==
  ASSUME ShellOK
  PROVE  /\ Layering \in [Vars -> Values]
         /\ Dotenv(shell) = Layering
         /\ Dotenv(Layering) = Layering
BY DEF ShellOK, Layering, Layered, FromFile, Dotenv, Readable

LEMMA DotenvTyped ==
  ASSUME ShellOK
  PROVE  /\ Dotenv(env) \in [Vars -> Values]
         /\ \A v \in Vars : Readable(env, v) => Dotenv(env)[v] = env[v]
BY DEF ShellOK, Dotenv, Readable

(* While neither the shell nor the .env changes, Layered means the same.   *)
LEMMA LayeredStays ==
  ASSUME UNCHANGED <<shell, file, prefix>>
  PROVE  \A v : Layered(v)' = Layered(v)
BY DEF Layered, FromFile, Readable

-----------------------------------------------------------------------------
LEMMA SettingsInit == Init => Settings
<1> SUFFICES ASSUME Init PROVE Settings
  OBVIOUS
<1>1. shell \in [Vars -> Values] /\ file \in [Vars -> Values]
  BY DEF Init, Values, ShellValues, FileValues, Value, Absent, Plain
<1> QED
  BY <1>1 DEF Init, Settings, ShellOK, EnvOK, FieldsAreLayered, TaprootAfterConfig

LEMMA SettingsNext == Settings /\ [Next]_vars => Settings'
<1> SUFFICES ASSUME Settings, [Next]_vars PROVE Settings'
  OBVIOUS
<1> USE DEF Settings
<1>1. CASE FromEnv
  <2> USE <1>1 DEF FromEnv
  <2>1. \A v : Layered(v)' = Layered(v)
    BY LayeredStays
  <2>2. Layering' = Layering
    BY <2>1 DEF Layering
  <2>3. env' \in [Vars -> Values] /\ \A v \in Vars : Readable(env, v) => env'[v] = env[v]
    BY DotenvTyped
  <2>4. ShellOK'
    BY <2>3 DEF ShellOK, Readable
  <2>5. ~edited => env' = Layering
    BY DotenvCompletes DEF EnvOK
  <2>6. EnvOK'
    BY <2>2, <2>5 DEF EnvOK
  <2>7. FieldsAreLayered'
    BY <2>1 DEF FieldsAreLayered
  <2>8. TaprootAfterConfig'
    BY <2>1 DEF TaprootAfterConfig, EnvOK
  <2> QED
    BY <2>4, <2>6, <2>7, <2>8
<1>2. CASE BuildPkcs11Config
  <2> USE <1>2 DEF BuildPkcs11Config
  <2>1. \A v : Layered(v)' = Layered(v)
    BY LayeredStays
  <2>2. Layering' = Layering
    BY <2>1 DEF Layering
  <2>3. ShellOK'
    BY DEF ShellOK, Readable
  <2>4. EnvOK'
    BY <2>2 DEF EnvOK
  <2>5. FieldsAreLayered'
    <3>1. SUFFICES ASSUME ~edited PROVE FieldsAreLayered'
      BY DEF FieldsAreLayered
    <3>2. env = Layering /\ last = Parse(env)
      BY <3>1 DEF EnvOK
    <3>3. last.cfg =
            [library |-> env[Library(env)], slotBy |-> Slot(env), slot |-> env[Slot(env)],
             pin |-> env["PASSWORD"], path |-> env["PATH"],
             port |-> IF Readable(env, "PORT") THEN env["PORT"] ELSE Absent]
      BY <3>2, ParseSucceeds DEF ShellOK
    <3>4. pkcs11' =
            [library |-> env[Library(env)], slotBy |-> Slot(env), slot |-> env[Slot(env)],
             pin |-> env["PASSWORD"], path |-> env["PATH"]]
      BY <3>3
    <3>5. \A v \in Vars : env[v] = Layered(v)
      BY <3>2 DEF Layering
    <3> QED
      BY <2>1, <3>4, <3>5 DEF FieldsAreLayered, Library, Slot, FirstReadable, Readable, Vars
  <2>6. TaprootAfterConfig'
    BY <2>1 DEF TaprootAfterConfig
  <2> QED
    BY <2>3, <2>4, <2>5, <2>6
<1>3. CASE NewBackend
  <2> USE <1>3 DEF NewBackend
  <2>1. \A v : Layered(v)' = Layered(v)
    BY LayeredStays
  <2>2. Layering' = Layering
    BY <2>1 DEF Layering
  <2>3. ShellOK'
    BY DEF ShellOK, Readable
  <2>4. EnvOK'
    BY <2>2 DEF EnvOK
  <2>5. FieldsAreLayered'
    BY <2>1 DEF FieldsAreLayered
  <2>6. TaprootAfterConfig'
    BY <2>2 DEF TaprootAfterConfig, EnvOK, Layering
  <2> QED
    BY <2>3, <2>4, <2>5, <2>6
<1>4. ASSUME StartProcess, shell' \in [Vars -> Values], repaired' \subseteq Vars,
             \A v \in repaired' : shell'[v].text = "good"
      PROVE  Settings'
  BY <1>4 DEF StartProcess, ShellOK, EnvOK, FieldsAreLayered, TaprootAfterConfig, Readable
<1>5. CASE Restart
  BY <1>4, <1>5 DEF Restart, ShellOK
<1>6. CASE Repair
  <2>1. Value("good", "shell") \in Values /\ Value("good", "shell").text = "good"
    BY DEF Value, Values
  <2>2. Cause \in Vars
    BY <1>6, ParseFails DEF Repair, Failed, Cause, EnvOK, ShellOK
  <2>3. shell' \in [Vars -> Values] /\ repaired' \subseteq Vars
    BY <1>6, <2>1, <2>2 DEF Repair, ShellOK
  <2>4. \A v \in repaired' : shell'[v].text = "good"
    BY <1>6, <2>1, <2>2 DEF Repair, ShellOK
  <2> QED
    BY <1>4, <1>6, <2>3, <2>4 DEF Repair
<1>7. CASE EditFile
  <2>1. file' \in [Vars -> Values]
    BY <1>7 DEF EditFile, ShellOK, Value, Values
  <2> QED
    BY <1>7, <2>1
    DEF EditFile, ShellOK, EnvOK, FieldsAreLayered, TaprootAfterConfig, Readable
<1>8. CASE UNCHANGED vars
  <2> USE <1>8 DEF vars
  <2>1. \A v : Layered(v)' = Layered(v)
    BY LayeredStays
  <2>2. Layering' = Layering
    BY <2>1 DEF Layering
  <2> QED
    BY <2>1, <2>2 DEF ShellOK, EnvOK, FieldsAreLayered, TaprootAfterConfig, Readable
<1> QED
  BY <1>1, <1>2, <1>3, <1>5, <1>6, <1>7, <1>8 DEF Next

LEMMA SettingsInvariant == Spec => []Settings
BY SettingsInit, SettingsNext, PTL DEF Spec

-----------------------------------------------------------------------------
(* Results.                                                                *)

(* A Pkcs11Config has the settings of the shell laid over the .env's, the  *)
(* preferred variable before either (src/config.rs:71-92).                 *)
THEOREM FieldsLayered == Spec => []FieldsAreLayered
<1>1. Settings => FieldsAreLayered
  BY DEF Settings
<1> QED
  BY <1>1, SettingsInvariant, PTL

(* A backend built after from_env has the TSB settings of both             *)
(* (src/config.rs:71, src/tsb/mod.rs:329-331).                             *)
THEOREM TaprootLayered == Spec => []TaprootAfterConfig
<1>1. Settings => TaprootAfterConfig
  BY DEF Settings
<1> QED
  BY <1>1, SettingsInvariant, PTL

(* No error asks for what the operator has set because an error asked for  *)
(* it (src/config.rs:73-109).                                              *)
THEOREM ErrorsNameCauses == Spec => []ErrorNamesCause
<1>1. Settings => ErrorNamesCause
  <2> SUFFICES ASSUME Settings, Failed PROVE Cause \notin repaired
    BY DEF ErrorNamesCause
  <2>1. last = Parse(env) /\ last.res # "ok"
    BY DEF Settings, EnvOK, Failed
  <2>2. Cause \in Vars /\ env[Cause].text # "good"
    BY <2>1, ParseFails DEF Settings, ShellOK, Cause
  <2> QED
    BY <2>2 DEF Settings, ShellOK, Readable
<1> QED
  BY <1>1, SettingsInvariant, PTL
=============================================================================
