------------------------------ MODULE EnvFile ------------------------------
(***************************************************************************)
(* Where the configuration comes from: the env file that is chosen         *)
(* (src/config/loader.py), as a function of the command line, of the       *)
(* variable SMART_PROVIDER_ENV_FILE and of the files that exist; and, for  *)
(* one setting, the source that decides its value (src/config/schema.py).  *)
(***************************************************************************)
EXTENDS Optional, Sequences, FiniteSets

CONSTANTS
  Paths,        \* file names that may be asked for
  Blank,        \* a text that is empty once stripped
  DefaultFile,  \* .env, which need not exist
  NotFound,     \* FileNotFoundError
  OddName       \* the name of a file that is called like the flag: none exists

(* An argument is the flag alone, the flag glued to a text with "=", or any
   other text. *)
Texts == Paths \cup {Blank}
Arguments == [kind : {"flag"}, text : {OddName}]
               \cup [kind : {"glued", "other"}, text : Texts]

\* The text of an argument that is taken as the value of the one before it.
AsValue(arg) == IF arg.kind = "other" THEN arg.text ELSE OddName

Named(text) == IF text = Blank THEN None ELSE text
-----------------------------------------------------------------------------
(* Defects the runs must notice. *)

ParseGluedOnly(argv) ==
  LET from[i \in 1..(Len(argv) + 1)] ==
        IF i > Len(argv) THEN None
        ELSE IF argv[i].kind = "glued" THEN Named(argv[i].text) ELSE from[i + 1]
  IN  from[1]
-----------------------------------------------------------------------------
\* _parse_env_file_from_argv: the first flag decides, and a flag without a
\* value counts as no flag.
ParseEnvFile(argv) ==
  LET from[i \in 1..(Len(argv) + 1)] ==
        IF i > Len(argv) THEN None
        ELSE IF argv[i].kind = "glued" THEN Named(argv[i].text)
        ELSE IF argv[i].kind = "other" THEN from[i + 1]
        ELSE IF i = Len(argv) THEN None
        ELSE Named(AsValue(argv[i + 1]))
  IN  from[1]

\* An explicit file must exist.
Existing(file, files) == IF file \in files THEN file ELSE NotFound

\* _resolve_env_file; variable is None when it is not set.
ResolveEnvFile(argv, variable, files) ==
  IF ParseEnvFile(argv) # None THEN Existing(ParseEnvFile(argv), files)
  ELSE IF variable \notin {None, Blank} THEN Existing(variable, files)
  ELSE DefaultFile
-----------------------------------------------------------------------------
(* The settings: each value is sound, or breaks a bound of Config.  A file
   that leaves the setting out is taken with those that are sound. *)

Values   == {"sound", "unsound"}
Contents == Values \cup {"absent"}

ASSUME EnvFileAssumption == {None, Blank} \cap Paths = {} /\ None \notin Contents

\* Config(_env_file=file): a variable SMART_PROVIDER_... wins over the file, and
\* the default of the field, which is sound, comes last.
InForce(environment, content) ==
  IF environment # None THEN environment
  ELSE IF content = "unsound" THEN "unsound" ELSE "sound"
-----------------------------------------------------------------------------
(* What the documents promise of a command line that uses the flag at most
   once, without a scan. *)

Uses(argv) == {i \in DOMAIN argv : argv[i].kind # "other"}

Asked(argv) ==
  {argv[i].text : i \in {j \in Uses(argv) : argv[j].kind = "glued"}}
    \cup {argv[i + 1].text : i \in {j \in Uses(argv) :
                                      argv[j].kind = "flag" /\ j < Len(argv)}}

\* docs/configuration.md:55-68: the flag before the variable before .env, and
\* an explicit file that does not exist is fatal.
Honours(argv, variable, files, result) ==
  Cardinality(Uses(argv)) <= 1 =>
    /\ \A p \in Paths : p \in Asked(argv) => result = Existing(p, files)
    /\ Asked(argv) \cap Paths = {} /\ variable \in Paths
         => result = Existing(variable, files)
    /\ Asked(argv) \cap Paths = {} /\ variable \in {None, Blank}
         => result = DefaultFile
=============================================================================
