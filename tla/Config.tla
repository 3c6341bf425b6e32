-------------------------------- MODULE Config --------------------------------
(***************************************************************************)
(* How "sink serve" and "sink config validate" come to a configuration:    *)
(* config.Load with its four layers, Config.Validate, RequirePKI and the   *)
(* reading of PKI material (src/internal/config/config.go,                 *)
(* src/cmd/sink/main.go).                                                  *)
(*                                                                         *)
(* Values are texts, and koanf turns a text into what the key's field      *)
(* holds; a text that is no number becomes zero.  Hosts and profiles are   *)
(* one key here, whose texts Scope and Profiles tell apart.                *)
(***************************************************************************)
EXTENDS Integers, Sequences, FiniteSets

CONSTANTS
    Texts,      (* function from keys to the texts that they may be given *)
    Default,    (* function from keys to their texts in defaults() *)
    Flagged,    (* the keys that have a flag *)
    Checked,    (* keys of addresses, the hostname, the log level and format *)
    Positive,   (* keys of limits that must be positive *)
    Delays,     (* keys of limits that may be zero *)
    Material,   (* keys of PKI contents, each with the key of its file *)
    Number,     (* function from texts that are numbers to these *)
    Valid,      (* texts that pass the check of their key *)
    Readable,   (* files that can be read *)
    MaxSet,     (* bound of the model: keys that one source sets *)
    Absent

Key == DOMAIN Texts

ASSUME EveryKeyHasADefault == DOMAIN Default = Key
ASSUME FlagsAreKeys == Flagged \subseteq Key
ASSUME MaterialKeys ==
    /\ DOMAIN Material \subseteq Key
    /\ \A k \in DOMAIN Material : Material[k] \in Key \ DOMAIN Material
ASSUME ValuesAreTexts == Absent \notin UNION {Texts[k] \union {Default[k]} : k \in Key}
ASSUME FilesHaveNames ==
    /\ Absent \notin {"", "flag.yaml", "env.yaml"}
    /\ "" \notin Readable
ASSUME NumbersAreIntegers == Number \in [DOMAIN Number -> Int]

\* What a source may set: a function on Key with at most MaxSet texts.
Layers(keys) ==
    UNION {{[k \in Key |-> IF k \in set THEN f[k] ELSE Absent] :
              f \in {g \in [set -> UNION {Texts[k] : k \in set}] :
                       \A k \in set : g[k] \in Texts[k]}} :
           set \in {s \in SUBSET keys : Cardinality(s) <= MaxSet}}

VARIABLES
    phase,    \* how far the process has come
    command,  \* "serve" or "config validate"
    files,    \* what files set: function from the paths of those that exist
    paths,    \* values of --config and ARS_CONFIG, or Absent
    environ,  \* what the environment sets
    flags,    \* what explicit flags set
    ko        \* the koanf instance: the text of every key so far

given == <<command, files, paths, environ, flags>>
vars == <<phase, given, ko>>

Nothing == [k \in Key |-> Absent]

Init == /\ phase = "defaults"
        /\ command \in {"serve", "config validate"}
        /\ \E content \in Layers(Key), there \in SUBSET {"flag.yaml", "env.yaml"} :
              files = [name \in there |->
                         IF name = "flag.yaml" THEN content ELSE Nothing]
        /\ paths \in [flag : {Absent, "", "flag.yaml"}, env : {Absent, "env.yaml", "flag.yaml"}]
        /\ environ \in Layers(Key)
        /\ flags \in Layers(Flagged)
        /\ ko = Nothing

Goes(from, to) == phase = from /\ phase' = to

\* A possible bug: a source removes what it does not set.
Replaced(source) == source

\* koanf's Load: what the source sets replaces what was there.
Merged(source) == [k \in Key |-> IF source[k] = Absent THEN ko[k] ELSE source[k]]

-------------------------------------------------------------------------------
(* config.Load. *)

LoadDefaults == /\ Goes("defaults", "file")
                /\ ko' = Merged(Default)
                /\ UNCHANGED <<given>>

\* --config if it was given, be it empty, and ARS_CONFIG otherwise.
ConfigPath == IF paths.flag # Absent THEN paths.flag
              ELSE IF paths.env = Absent THEN "" ELSE paths.env

LoadFile ==
    \/ /\ ConfigPath = "" /\ Goes("file", "env")
       /\ UNCHANGED <<given, ko>>
    \/ /\ ConfigPath # "" /\ ConfigPath \notin DOMAIN files
       /\ Goes("file", "refused")
       /\ UNCHANGED <<given, ko>>
    \/ /\ ConfigPath # "" /\ ConfigPath \in DOMAIN files
       /\ Goes("file", "env")
       /\ ko' = Merged(files[ConfigPath])
       /\ UNCHANGED <<given>>

LoadEnv == /\ Goes("env", "flags")
           /\ ko' = Merged(environ)
           /\ UNCHANGED <<given>>

\* A possible bug: flags that were not given override with their defaults.
FlagsAndTheirDefaults ==
    [k \in Key |-> IF k \notin Flagged THEN Absent
                   ELSE IF flags[k] # Absent THEN flags[k] ELSE Default[k]]

\* posflag: a flag counts if it was given, or where no source has the key.
FlagLayer ==
    [k \in Key |-> IF k \notin Flagged THEN Absent
                   ELSE IF flags[k] # Absent THEN flags[k]
                   ELSE IF ko[k] = Absent THEN Default[k] ELSE Absent]

LoadFlags == /\ Goes("flags", "validate")
             /\ ko' = Merged(FlagLayer)
             /\ UNCHANGED <<given>>

-------------------------------------------------------------------------------
(* What the loaded configuration means. *)

\* koanf's Int and Duration: zero for what they cannot read.
Value(k) == IF ko[k] \in DOMAIN Number THEN Number[ko[k]] ELSE 0

\* A possible bug: limits may be zero like the delay.
LimitsNotNegative == \A k \in Positive \union Delays : Value(k) >= 0

LimitsValid == /\ \A k \in Positive : Value(k) > 0
               /\ \A k \in Delays : Value(k) >= 0

\* Contents and file of the same material.
MaterialOnce == \A k \in DOMAIN Material : ko[k] = "" \/ ko[Material[k]] = ""

Validate ==
    /\ phase = "validate"
    /\ phase' = IF /\ \A k \in Checked : ko[k] \in Valid
                   /\ LimitsValid /\ MaterialOnce
                THEN command ELSE "invalid"
    /\ UNCHANGED <<given, ko>>

\* run: what "config validate" prints has no further effect.
PrintConfig == /\ Goes("config validate", "printed")
               /\ UNCHANGED <<given, ko>>

\* serve: RequirePKI and material.
RequirePKI ==
    /\ phase = "serve"
    /\ phase' = IF \A k \in DOMAIN Material :
                      ko[k] # "" \/ ko[Material[k]] \in Readable
                THEN "serving" ELSE "invalid"
    /\ UNCHANGED <<given, ko>>

Next == LoadDefaults \/ LoadFile \/ LoadEnv \/ LoadFlags
        \/ Validate \/ PrintConfig \/ RequirePKI

Spec == Init /\ [][Next]_vars

-------------------------------------------------------------------------------
(* Properties. *)

Stage == {"defaults", "file", "env", "flags", "validate", "serve",
          "config validate", "refused", "invalid", "printed", "serving"}

TypeOK ==
    /\ phase \in Stage
    /\ ko \in [Key -> (UNION {Texts[k] \union {Default[k]} : k \in Key}) \union {Absent}]
    /\ phase \notin {"defaults", "refused"} => \A k \in Key : ko[k] # Absent

\* The refinement mapping: the sources as given, and the end of loading.
FileSource == IF paths.flag \in DOMAIN files THEN files[paths.flag]
              ELSE IF paths.flag = Absent /\ paths.env \in DOMAIN files
              THEN files[paths.env] ELSE Nothing

Promise == INSTANCE Precedence WITH
    sources <- <<Default, FileSource, environ, flags>>,
    config  <- IF phase \in {"defaults", "file", "env", "flags", "refused"}
               THEN Nothing ELSE ko

(***************************************************************************)
(* However the four sources overlap, merging them one after the other is   *)
(* what Precedence says: flags that were given, then the environment, then *)
(* the one file that --config or else ARS_CONFIG names, then the defaults; *)
(* a flag left at its default overrides nothing, and a key set to the      *)
(* empty text is set.                                                      *)
(***************************************************************************)
LoadsWhatIsPromised == Promise!Spec

(***************************************************************************)
(* What the other modules assume of the limits, Scope of the hosts and     *)
(* Trust of the material, is so in every process that serves, wherever its *)
(* values come from: the limits that must be positive are numbers above    *)
(* zero, shutdown_delay is not negative (zero if it is mistyped), and each *)
(* PKI material is from exactly one place.                                 *)
(***************************************************************************)
ServesWhatOthersAssume ==
    phase = "serving" =>
        /\ \A k \in Positive : ko[k] \in DOMAIN Number /\ Number[ko[k]] \in Nat \ {0}
        /\ \A k \in Delays : Value(k) \in Nat
        /\ \A k \in Checked : ko[k] \in Valid
        /\ \A k \in DOMAIN Material : (ko[k] = "") # (ko[Material[k]] = "")

===============================================================================
