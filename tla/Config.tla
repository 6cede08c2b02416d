------------------------------- MODULE Config -------------------------------
(***************************************************************************)
(* Where a process takes its settings from: SecurosysConfig::from_env      *)
(* (src/config.rs), pkcs11_config (src/pkcs11/connect.rs), and the TSB     *)
(* settings SecurosysBackend::new reads by itself (src/tsb/mod.rs).  The   *)
(* operator starts the process from a shell, next to a .env file, edits    *)
(* that file, and starts the process anew when it reports an error.        *)
(***************************************************************************)
EXTENDS Naturals, Sequences, FiniteSets, FiniteSetsExt, Functions

CONSTANTS
  None,
  Prefixes,  \* the variables that a .env may set before its first bad line
  MaxOdd,    \* bound: variables that are not as in Plain
  MaxEdits   \* bound: edits of the .env

Vars == {"LIB", "PKCS11_LIB", "SLOT_LABEL", "SLOT_ID", "PASSWORD", "PATH",
         "ENDPOINT", "PORT", "URL", "JWT"}

ASSUME PrefixesAssumption == Prefixes \subseteq SUBSET Vars
ASSUME NoneAssumption == None \notin Vars

VARIABLES
  shell,     \* what the process is started with
  file,      \* what the .env sets
  prefix,    \* the variables before the first line of it that does not parse
  env,       \* std::env of the process
  last,      \* the last outcome of from_env, or None
  pkcs11,    \* the Pkcs11Config built, or None
  taproot,   \* the TSB settings the backend found, or None
  loaded,    \* from_env has run before the backend was built
  edits,     \* edits of the .env
  edited,    \* the .env was edited since the process started
  repaired   \* variables the operator has set on account of an error

vars == <<shell, file, prefix, env, last, pkcs11, taproot, loaded, edits,
          edited, repaired>>

-----------------------------------------------------------------------------
(* A value is absent, text its reader accepts or rejects, or not Unicode.  *)
(* Nothing rejects a library, a label, a password or an endpoint; the TSB  *)
(* settings reject the empty text.                                         *)

Value(text, from) == [text |-> text, from |-> from]
Absent == Value("none", "shell")
ShellValues == {Value(text, "shell") : text \in {"none", "good", "bad", "raw"}}
FileValues == {Value(text, "file") : text \in {"good", "bad"}} \cup {Absent}

Plain == [v \in Vars |->
            IF v \in {"LIB", "SLOT_ID", "PASSWORD", "PATH"}
            THEN Value("good", "shell") ELSE Absent]

(* std::env::var gives a value.                                            *)
Readable(e, v) == e[v].text \in {"good", "bad"}
Malformed(e, v) == e[v].text = "bad"

(* What a process sees of the shell and the .env up to its first bad line. *)
FromFile(v) == v \in prefix /\ Readable(file, v) /\ ~Readable(shell, v)
Layered(v) == IF FromFile(v) THEN file[v] ELSE shell[v]

-----------------------------------------------------------------------------
(* dotenvy::dotenv: a variable that can be read is left alone; loading     *)
(* stops at a bad line, and from_env drops that error.                     *)
Dotenv(e) ==
  [v \in Vars |-> IF v \in prefix /\ Readable(file, v) /\ ~Readable(e, v)
                  THEN file[v] ELSE e[v]]

FirstReadable(e, v, w) == IF Readable(e, v) THEN v ELSE w
Library(e) == FirstReadable(e, "LIB", "PKCS11_LIB")

(* Mutant: the id is preferred to the label.                               *)
SlotById(e) == FirstReadable(e, "SLOT_ID", "SLOT_LABEL")
Slot(e) == FirstReadable(e, "SLOT_LABEL", "SLOT_ID")

Check(kind, v, fails) == [kind |-> kind, var |-> v, fails |-> fails]

(* Mutant: the key of the error is that of the variable read before it.    *)
PortCheckCopied(e) == Check("invalid", "ENDPOINT", Malformed(e, "PORT"))
PortCheck(e) == Check("invalid", "PORT", Malformed(e, "PORT"))

(* The early returns of from_env in their order.  DerivationPath says what *)
(* is wrong with the path and names no variable.  A port that cannot be    *)
(* read is the default port.                                               *)
Checks(e) ==
  << Check("missing", "LIB", ~Readable(e, Library(e))),
     Check("missing", "SLOT_LABEL", ~Readable(e, Slot(e))),
     Check("invalid", "SLOT_ID", Slot(e) = "SLOT_ID" /\ Malformed(e, "SLOT_ID")),
     Check("missing", "PASSWORD", ~Readable(e, "PASSWORD")),
     Check("missing", "PATH", ~Readable(e, "PATH")),
     Check("path", None, Malformed(e, "PATH")),
     PortCheck(e) >>

Failing(e) == {i \in DOMAIN Checks(e) : Checks(e)[i].fails}

Parse(e) ==
  LET first == Checks(e)[Min(Failing(e))] IN
  IF Failing(e) # {}
  THEN [res |-> first.kind, var |-> first.var, cfg |-> None]
  ELSE [res |-> "ok", var |-> None,
        cfg |-> [library |-> e[Library(e)], slotBy |-> Slot(e),
                 slot |-> e[Slot(e)], pin |-> e["PASSWORD"], path |-> e["PATH"],
                 port |-> IF Readable(e, "PORT") THEN e["PORT"] ELSE Absent]]

(* SecurosysTaprootSigner::from_env: both settings, neither, or the error  *)
(* that new logs and forgets.  Whether the HTTP client can then be built   *)
(* is left out.                                                            *)
Usable(e, v) == e[v].text = "good"
TsbSettings(e) ==
  CASE Usable(e, "URL") /\ Usable(e, "JWT")   -> "both"
    [] ~Usable(e, "URL") /\ ~Usable(e, "JWT") -> "neither"
    [] OTHER                                  -> "half"

-----------------------------------------------------------------------------
Init ==
  /\ \E n \in 0..MaxOdd : \E odd \in kSubset(n, Vars) :
       \E s \in [odd -> ShellValues], f \in [odd -> FileValues] :
         /\ shell = [v \in Vars |-> IF v \in odd THEN s[v] ELSE Plain[v]]
         /\ file = [v \in Vars |-> IF v \in odd THEN f[v] ELSE Absent]
  /\ prefix \in Prefixes
  /\ env = shell
  /\ last = None /\ pkcs11 = None /\ taproot = None
  /\ loaded = FALSE /\ edited = FALSE
  /\ edits = 0 /\ repaired = {}

(* Mutant: a complete environment makes the .env look unnecessary.         *)
FromEnvLazy ==
  /\ env' = IF Parse(env).res = "ok" THEN env ELSE Dotenv(env)
  /\ last' = Parse(env')
  /\ loaded' = (taproot = None)
  /\ UNCHANGED <<shell, file, prefix, pkcs11, taproot, edits, edited, repaired>>

FromEnv ==
  /\ env' = Dotenv(env)
  /\ last' = Parse(env')
  /\ loaded' = (loaded \/ taproot = None)
  /\ UNCHANGED <<shell, file, prefix, pkcs11, taproot, edits, edited, repaired>>

(* pkcs11_config consumes the configuration; the endpoint and the port are *)
(* only logged.                                                            *)
BuildPkcs11Config ==
  /\ last # None /\ last.res = "ok"
  /\ pkcs11' = [f \in {"library", "slotBy", "slot", "pin", "path"} |-> last.cfg[f]]
  /\ last' = None
  /\ UNCHANGED <<shell, file, prefix, env, taproot, loaded, edits, edited, repaired>>

(* SecurosysBackend::new reads the environment as it finds it.             *)
NewBackend ==
  /\ taproot = None
  /\ taproot' = TsbSettings(env)
  /\ UNCHANGED <<shell, file, prefix, env, last, pkcs11, loaded, edits, edited,
                 repaired>>

StartProcess ==
  /\ env' = shell'
  /\ last' = None /\ pkcs11' = None /\ taproot' = None
  /\ loaded' = FALSE /\ edited' = FALSE
  /\ UNCHANGED <<file, prefix, edits>>

Restart == shell' = shell /\ StartProcess /\ UNCHANGED repaired

(* What an error tells the operator to set; there is one derivation path.  *)
Failed == last # None /\ last.res # "ok"
Cause == IF last.res = "path" THEN "PATH" ELSE last.var

Repair ==
  /\ Failed
  /\ shell' = [shell EXCEPT ![Cause] = Value("good", "shell")]
  /\ repaired' = repaired \cup {Cause}
  /\ StartProcess

EditFile ==
  /\ edits < MaxEdits
  /\ \E v \in Vars : file' = [file EXCEPT ![v] = Value("good", "edit")]
  /\ prefix' = Vars
  /\ edits' = edits + 1
  /\ edited' = TRUE
  /\ UNCHANGED <<shell, env, last, pkcs11, taproot, loaded, repaired>>

Next ==
  FromEnv \/ BuildPkcs11Config \/ NewBackend \/ Restart \/ Repair \/ EditFile

Spec == Init /\ [][Next]_vars

-----------------------------------------------------------------------------
(* Properties.                                                             *)

(* The Pkcs11Config of a process whose .env nobody edited, also if half of *)
(* that file is lost to a bad line: a label is preferred to an id and the  *)
(* connector's library variable to the generic one, and only then the      *)
(* shell to the .env - so that a label in the .env wins over an id in the  *)
(* shell (config.rs:71-92).                                                *)
FieldsAreLayered ==
  pkcs11 # None /\ ~edited =>
    LET set(v) == Layered(v).text \in {"good", "bad"}
        slotBy == IF set("SLOT_LABEL") THEN "SLOT_LABEL" ELSE "SLOT_ID"
    IN
    pkcs11 = [library |-> Layered(IF set("LIB") THEN "LIB" ELSE "PKCS11_LIB"),
              slotBy |-> slotBy, slot |-> Layered(slotBy),
              pin |-> Layered("PASSWORD"), path |-> Layered("PATH")]

(* A backend built after from_env finds the TSB settings of the shell and  *)
(* of the .env, for new loads no file itself (config.rs:71,                *)
(* tsb/mod.rs:329-331): the order of the two calls decides.                *)
TaprootAfterConfig ==
  taproot # None /\ loaded /\ ~edited =>
    taproot = TsbSettings([v \in Vars |-> Layered(v)])

(* An operator who sets what an error asks for is never asked for it       *)
(* again, so that every configuration is repaired after finitely many      *)
(* starts (config.rs:73-109).                                              *)
ErrorNamesCause == Failed => Cause \notin repaired
=============================================================================
