----------------------------- MODULE ConfigProofs -----------------------------
(***************************************************************************)
(* Proofs about the configuration, for any keys, texts and sources: the    *)
(* four layers of config.Load implement the precedence of module           *)
(* Precedence, and only sound configurations are served with.              *)
(*                                                                         *)
(* The invariant says what koanf holds between two layers: of every key,   *)
(* the text of the highest source that has been loaded.                    *)
(***************************************************************************)
EXTENDS Config, Profiles, SequenceTheorems, WellFoundedInduction, TLAPS

\* One source laid over another.
Over(low, high) == [k \in Key |-> IF high[k] = Absent THEN low[k] ELSE high[k]]

IsSource(layer, keys) ==
    /\ layer = [k \in Key |-> layer[k]]
    /\ \A k \in Key : layer[k] = Absent \/ (k \in keys /\ layer[k] \in Texts[k])

GivenInv ==
    /\ command \in {"serve", "config validate"}
    /\ DOMAIN files \subseteq {"flag.yaml", "env.yaml"}
    /\ \A name \in DOMAIN files : IsSource(files[name], Key)
    /\ paths.flag \in {Absent, "", "flag.yaml"}
    /\ paths.env \in {Absent, "env.yaml", "flag.yaml"}
    /\ IsSource(environ, Key)
    /\ IsSource(flags, Flagged)

LayerInv ==
    /\ phase \in {"defaults", "file", "refused"} \/ \A k \in Key : ko[k] # Absent
    /\ phase = "defaults" => ko = Nothing
    /\ phase = "file" => ko = Over(Nothing, Default)
    /\ phase = "env" => ko = Over(Default, FileSource)
    /\ phase = "flags" => ko = Over(Over(Default, FileSource), environ)

\* What Validate has let through.
ServeInv ==
    /\ phase \in {"serve", "serving"} =>
          LimitsValid /\ MaterialOnce /\ \A k \in Checked : ko[k] \in Valid
    /\ phase = "serving" =>
          \A k \in DOMAIN Material : ko[k] # "" \/ ko[Material[k]] \in Readable

IInv == TypeOK /\ GivenInv /\ LayerInv /\ ServeInv

-------------------------------------------------------------------------------

\* What Layers enumerates are sources.
LEMMA LayersAreSources ==
  ASSUME NEW keys \in SUBSET Key, NEW layer \in Layers(keys)
  PROVE  IsSource(layer, keys)
<1>1. PICK set \in SUBSET keys :
        layer \in {[k \in Key |-> IF k \in set THEN f[k] ELSE Absent] :
                     f \in {g \in [set -> UNION {Texts[k] : k \in set}] :
                              \A k \in set : g[k] \in Texts[k]}}
  BY DEF Layers
<1>2. PICK f \in [set -> UNION {Texts[k] : k \in set}] :
        /\ \A k \in set : f[k] \in Texts[k]
        /\ layer = [k \in Key |-> IF k \in set THEN f[k] ELSE Absent]
  BY <1>1
<1>3. \A k \in Key : layer[k] = IF k \in set THEN f[k] ELSE Absent
  BY <1>2
<1>4. layer = [k \in Key |-> layer[k]]
  BY <1>2
<1> QED BY <1>2, <1>3, <1>4 DEF IsSource

LEMMA DefaultIsPresent == \A k \in Key : Default[k] # Absent
  BY ValuesAreTexts, EveryKeyHasADefault

\* Layers of sources hold texts of their keys.
LEMMA NothingIsASource == IsSource(Nothing, Key)
  BY DEF IsSource, Nothing

LEMMA FileSourceIsASource ==
  ASSUME GivenInv
  PROVE  IsSource(FileSource, Key)
  BY NothingIsASource DEF GivenInv, FileSource

LEMMA InitInv == Init => IInv
<1> SUFFICES ASSUME Init PROVE IInv
  OBVIOUS
<1>1. TypeOK
  BY DEF Init, TypeOK, Stage, Nothing
<1>2. GivenInv
  <2>1. PICK content \in Layers(Key), there \in SUBSET {"flag.yaml", "env.yaml"} :
          files = [name \in there |-> IF name = "flag.yaml" THEN content ELSE Nothing]
    BY DEF Init
  <2>2. IsSource(content, Key) /\ IsSource(environ, Key) /\ IsSource(flags, Flagged)
    BY LayersAreSources, FlagsAreKeys DEF Init
  <2>3. \A name \in DOMAIN files : IsSource(files[name], Key)
    BY <2>1, <2>2, NothingIsASource
  <2>4. /\ paths.flag \in {Absent, "", "flag.yaml"}
        /\ paths.env \in {Absent, "env.yaml", "flag.yaml"}
        /\ command \in {"serve", "config validate"}
    BY DEF Init
  <2> QED BY <2>1, <2>2, <2>3, <2>4 DEF GivenInv
<1>3. LayerInv /\ ServeInv
  BY DEF Init, LayerInv, ServeInv
<1> QED BY <1>1, <1>2, <1>3 DEF IInv

-------------------------------------------------------------------------------
(* One layer over what is loaded. *)

AllTexts == (UNION {Texts[k] \union {Default[k]} : k \in Key}) \union {Absent}

LEMMA MergedIsOver ==
  ASSUME NEW source
  PROVE  Merged(source) = Over(ko, source)
  BY DEF Merged, Over

\* Types, and that no key that has a text loses it.
LEMMA MergedType ==
  ASSUME TypeOK, NEW source, \A k \in Key : source[k] \in AllTexts
  PROVE  /\ Merged(source) \in [Key -> AllTexts]
         /\ \A k \in Key : ko[k] # Absent \/ source[k] # Absent => Merged(source)[k] # Absent
  BY DEF TypeOK, AllTexts, Merged

LEMMA SourceType ==
  ASSUME NEW layer, NEW keys, IsSource(layer, keys)
  PROVE  \A k \in Key : layer[k] \in AllTexts
  BY DEF IsSource, AllTexts

LEMMA DefaultType == \A k \in Key : Default[k] \in AllTexts
  BY DEF AllTexts

\* ConfigPath names the file that FileSource takes.
LEMMA ConfigPathNames ==
  ASSUME GivenInv
  PROVE  /\ ConfigPath = "" => FileSource = Nothing
         /\ ConfigPath # "" /\ ConfigPath \in DOMAIN files => FileSource = files[ConfigPath]
<1>1. /\ DOMAIN files \subseteq {"flag.yaml", "env.yaml"}
      /\ paths.flag \in {Absent, "", "flag.yaml"}
      /\ paths.env \in {Absent, "env.yaml", "flag.yaml"}
  BY DEF GivenInv
<1>2. Absent \notin DOMAIN files /\ "" \notin DOMAIN files
  BY <1>1, FilesHaveNames
<1> QED BY <1>1, <1>2, FilesHaveNames DEF ConfigPath, FileSource

\* Explicit flags: no text is missing any more, so no default of a flag counts.
LEMMA FlagLayerIsFlags ==
  ASSUME GivenInv, \A k \in Key : ko[k] # Absent
  PROVE  \A k \in Key : FlagLayer[k] = flags[k]
  BY DEF GivenInv, IsSource, FlagLayer

-------------------------------------------------------------------------------
(* One step. *)

LEMMA StepGiven ==
  ASSUME GivenInv, [Next]_vars
  PROVE  GivenInv' /\ FileSource' = FileSource
<1>1. UNCHANGED given
  BY DEF Next, LoadDefaults, LoadFile, LoadEnv, LoadFlags, Validate, PrintConfig,
         RequirePKI, vars
<1> QED BY <1>1 DEF GivenInv, IsSource, given, FileSource, Nothing

LEMMA StepType ==
  ASSUME IInv, [Next]_vars
  PROVE  TypeOK'
<1>0. TypeOK /\ GivenInv /\ LayerInv
  BY DEF IInv
<1>1. CASE LoadDefaults
  <2>1. phase = "defaults" /\ phase' = "file" /\ ko' = Merged(Default)
    BY <1>1 DEF LoadDefaults, Goes
  <2>2. ko' \in [Key -> AllTexts] /\ \A k \in Key : ko'[k] # Absent
    BY <1>0, <2>1, DefaultType, DefaultIsPresent, MergedType
  <2> QED BY <2>1, <2>2 DEF TypeOK, Stage, AllTexts
<1>2. CASE LoadFile
  <2>1. CASE ko' = ko
    BY <1>0, <1>2, <2>1 DEF LoadFile, Goes, TypeOK, Stage
  <2>2. CASE ConfigPath \in DOMAIN files /\ ko' = Merged(files[ConfigPath])
    <3>1. phase = "file" /\ phase' \in {"env", "refused"}
      BY <1>2 DEF LoadFile, Goes
    <3>2. IsSource(files[ConfigPath], Key)
      BY <1>0, <2>2 DEF GivenInv
    <3>3. ko' \in [Key -> AllTexts] /\ \A k \in Key : ko[k] # Absent => ko'[k] # Absent
      BY <1>0, <2>2, <3>2, SourceType, MergedType
    <3> QED BY <1>0, <3>1, <3>3 DEF TypeOK, Stage, AllTexts
  <2> QED BY <1>2, <2>1, <2>2 DEF LoadFile
<1>3. CASE LoadEnv
  <2>1. phase = "env" /\ phase' = "flags" /\ ko' = Merged(environ)
    BY <1>3 DEF LoadEnv, Goes
  <2>2. ko' \in [Key -> AllTexts] /\ \A k \in Key : ko[k] # Absent => ko'[k] # Absent
    BY <1>0, <2>1, SourceType, MergedType DEF GivenInv
  <2> QED BY <1>0, <2>1, <2>2 DEF TypeOK, Stage, AllTexts
<1>4. CASE LoadFlags
  <2>1. phase = "flags" /\ phase' = "validate" /\ ko' = Merged(FlagLayer)
    BY <1>4 DEF LoadFlags, Goes
  <2>2. \A k \in Key : ko[k] # Absent
    BY <1>0, <2>1 DEF LayerInv
  <2>3. \A k \in Key : FlagLayer[k] \in AllTexts
    BY <1>0, <2>2, FlagLayerIsFlags, SourceType DEF GivenInv
  <2>4. ko' \in [Key -> AllTexts] /\ \A k \in Key : ko'[k] # Absent
    BY <1>0, <2>1, <2>2, <2>3, MergedType
  <2> QED BY <2>1, <2>4 DEF TypeOK, Stage, AllTexts
<1>5. CASE Validate
  BY <1>0, <1>5 DEF Validate, GivenInv, TypeOK, Stage
<1>6. CASE PrintConfig
  BY <1>0, <1>6 DEF PrintConfig, Goes, TypeOK, Stage
<1>7. CASE RequirePKI
  BY <1>0, <1>7 DEF RequirePKI, TypeOK, Stage
<1>8. CASE UNCHANGED vars
  BY <1>0, <1>8 DEF vars, TypeOK
<1> QED BY <1>1, <1>2, <1>3, <1>4, <1>5, <1>6, <1>7, <1>8 DEF Next

LEMMA StepLayer ==
  ASSUME IInv, [Next]_vars, TypeOK'
  PROVE  LayerInv'
<1>0. TypeOK /\ GivenInv /\ LayerInv /\ FileSource' = FileSource
  BY StepGiven DEF IInv
<1>9. \A k \in Key : phase' \notin {"defaults", "refused"} => ko'[k] # Absent
  BY DEF TypeOK
<1>1. CASE LoadDefaults
  <2>1. phase = "defaults" /\ phase' = "file" /\ ko' = Merged(Default)
    BY <1>1 DEF LoadDefaults, Goes
  <2>2. ko' = Over(Nothing, Default)
    BY <1>0, <2>1, MergedIsOver DEF LayerInv
  <2> QED BY <2>1, <2>2 DEF LayerInv, Over, Nothing
<1>2. CASE LoadFile
  <2>1. phase = "file" /\ ko = Over(Nothing, Default)
    BY <1>0, <1>2 DEF LoadFile, Goes, LayerInv
  <2>2. \A k \in Key : ko[k] = Default[k]
    BY <2>1, DefaultIsPresent DEF Over
  <2>3. CASE phase' = "refused"
    BY <2>3 DEF LayerInv
  <2>4. CASE phase' = "env"
    <3>1. ko' = Over(ko, FileSource)
      <4>1. CASE ConfigPath = ""
        <5>1. ko' = ko /\ FileSource = Nothing
          BY <1>0, <1>2, <4>1, ConfigPathNames DEF LoadFile, Goes
        <5> QED BY <5>1, <2>1 DEF Over, Nothing
      <4>2. CASE ConfigPath # ""
        <5>1. ConfigPath \in DOMAIN files /\ ko' = Merged(files[ConfigPath])
          BY <1>2, <2>4, <4>2 DEF LoadFile, Goes
        <5> QED BY <1>0, <4>2, <5>1, ConfigPathNames, MergedIsOver
      <4> QED BY <4>1, <4>2
    <3>2. Over(ko, FileSource) = Over(Default, FileSource)
      BY <2>2 DEF Over
    <3> QED BY <1>0, <1>9, <2>4, <3>1, <3>2 DEF LayerInv, Over
  <2> QED BY <1>2, <2>3, <2>4 DEF LoadFile, Goes
<1>3. CASE LoadEnv
  <2>1. phase = "env" /\ phase' = "flags" /\ ko' = Merged(environ) /\ environ' = environ
    BY <1>3 DEF LoadEnv, Goes, given
  <2>2. ko' = Over(Over(Default, FileSource), environ)
    BY <1>0, <2>1, MergedIsOver DEF LayerInv
  <2> QED BY <1>0, <1>9, <2>1, <2>2 DEF LayerInv, Over
<1>4. CASE LoadFlags
  BY <1>4, <1>9 DEF LoadFlags, Goes, LayerInv
<1>5. CASE Validate \/ PrintConfig \/ RequirePKI
  <2>1. phase' \notin {"defaults", "file", "env", "flags", "refused"}
    BY <1>0, <1>5 DEF Validate, PrintConfig, RequirePKI, Goes, GivenInv
  <2> QED BY <1>9, <2>1 DEF LayerInv
<1>6. CASE UNCHANGED vars
  BY <1>0, <1>6 DEF vars, given, LayerInv, Over, Nothing
<1> QED BY <1>1, <1>2, <1>3, <1>4, <1>5, <1>6 DEF Next

LEMMA StepServe ==
  ASSUME IInv, [Next]_vars
  PROVE  ServeInv'
<1>0. GivenInv /\ ServeInv
  BY DEF IInv
<1>1. CASE LoadDefaults \/ LoadFile \/ LoadEnv \/ LoadFlags \/ PrintConfig
  BY <1>1 DEF LoadDefaults, LoadFile, LoadEnv, LoadFlags, PrintConfig, Goes, ServeInv
<1>2. CASE Validate
  <2>1. phase' # "serving" /\ ko' = ko
    BY <1>0, <1>2 DEF Validate, GivenInv
  <2>2. phase' = "serve" => LimitsValid /\ MaterialOnce /\ \A k \in Checked : ko[k] \in Valid
    BY <1>2 DEF Validate
  <2> QED BY <2>1, <2>2 DEF ServeInv, LimitsValid, MaterialOnce, Value
<1>3. CASE RequirePKI
  <2>1. phase = "serve" /\ ko' = ko
    BY <1>3 DEF RequirePKI
  <2>2. phase' = "serving" =>
          \A k \in DOMAIN Material : ko[k] # "" \/ ko[Material[k]] \in Readable
    BY <1>3 DEF RequirePKI
  <2> QED BY <1>0, <2>1, <2>2 DEF ServeInv, LimitsValid, MaterialOnce, Value
<1>4. CASE UNCHANGED vars
  BY <1>0, <1>4 DEF vars, ServeInv, LimitsValid, MaterialOnce, Value
<1> QED BY <1>1, <1>2, <1>3, <1>4 DEF Next

LEMMA Inductive == Spec => []IInv
<1>1. IInv /\ [Next]_vars => IInv'
  BY StepGiven, StepType, StepLayer, StepServe DEF IInv
<1> QED BY <1>1, InitInv, PTL DEF Spec

-------------------------------------------------------------------------------

\* TypeOK: from the defaults on, no key is ever without a text.
THEOREM ConfigTypeOK == Spec => []TypeOK
<1>1. IInv => TypeOK
  BY DEF IInv
<1> QED BY <1>1, Inductive, PTL

\* ServesWhatOthersAssume: Validate and RequirePKI let no process serve with a
\* limit or material that the rest of the program does not expect.
THEOREM ConfigServesWhatOthersAssume == Spec => []ServesWhatOthersAssume
<1>1. IInv => ServesWhatOthersAssume
  <2> SUFFICES ASSUME IInv, phase = "serving"
               PROVE  /\ \A k \in Positive :
                            ko[k] \in DOMAIN Number /\ Number[ko[k]] \in Nat \ {0}
                      /\ \A k \in Delays : Value(k) \in Nat
                      /\ \A k \in Checked : ko[k] \in Valid
                      /\ \A k \in DOMAIN Material : (ko[k] = "") # (ko[Material[k]] = "")
    BY DEF ServesWhatOthersAssume
  <2>0. /\ LimitsValid /\ MaterialOnce /\ \A k \in Checked : ko[k] \in Valid
        /\ \A k \in DOMAIN Material : ko[k] # "" \/ ko[Material[k]] \in Readable
    BY DEF IInv, ServeInv
  <2>2. ASSUME NEW k \in Positive
        PROVE  ko[k] \in DOMAIN Number /\ Number[ko[k]] \in Nat \ {0}
    <3>1. Value(k) > 0
      BY <2>0 DEF LimitsValid
    <3>2. ko[k] \in DOMAIN Number
      BY <3>1 DEF Value
    <3>3. Number[ko[k]] \in Int /\ Number[ko[k]] > 0
      BY <3>1, <3>2, NumbersAreIntegers DEF Value
    <3> QED BY <3>2, <3>3
  <2>3. ASSUME NEW k \in Delays
        PROVE  Value(k) \in Nat
    <3>1. Value(k) >= 0
      BY <2>0 DEF LimitsValid
    <3>2. Value(k) \in Int
      BY NumbersAreIntegers DEF Value
    <3> QED BY <3>1, <3>2
  <2>4. \A k \in DOMAIN Material : (ko[k] = "") # (ko[Material[k]] = "")
    BY <2>0, FilesHaveNames DEF MaterialOnce
  <2> QED BY <2>0, <2>2, <2>3, <2>4
<1> QED BY <1>1, Inductive, PTL

-------------------------------------------------------------------------------
(* The refinement. *)

Sources == <<Default, FileSource, environ, flags>>

Visible == IF phase \in {"defaults", "file", "env", "flags", "refused"}
           THEN Nothing ELSE ko

\* The highest of the four that sets a key.
LEMMA HighestOfFour ==
  ASSUME NEW k \in Key
  PROVE  /\ Promise!Setters(k) # {}
         /\ Sources[Promise!Highest(k)][k] =
              Over(Over(Over(Default, FileSource), environ), flags)[k]
<1> DEFINE Top == IF flags[k] # Absent THEN 4
                  ELSE IF environ[k] # Absent THEN 3
                  ELSE IF FileSource[k] # Absent THEN 2 ELSE 1
<1>1. /\ DOMAIN Sources = 1..4
      /\ Sources[1] = Default /\ Sources[2] = FileSource
      /\ Sources[3] = environ /\ Sources[4] = flags
  BY DEF Sources
<1>2. Promise!Setters(k) = {i \in 1..4 : Sources[i][k] # Absent}
  BY <1>1 DEF Promise!Setters, Sources
<1>3. Top \in Promise!Setters(k)
  BY <1>1, <1>2, DefaultIsPresent
<1>4. \A j \in Promise!Setters(k) : j <= Top
  BY <1>1, <1>2
<1>5. Promise!Highest(k) = Top
  <2>1. \A i, j \in 1..4 : i <= j /\ j <= i => i = j
    OBVIOUS
  <2>2. \A i \in Promise!Setters(k) :
          (\A j \in Promise!Setters(k) : j <= i) => i = Top
    BY <1>2, <1>3, <1>4, <2>1
  <2> HIDE DEF Top
  <2> QED BY <1>3, <1>4, <2>2 DEF Promise!Highest
<1>6. Sources[Top][k] = Over(Over(Over(Default, FileSource), environ), flags)[k]
  BY <1>1 DEF Over
<1> QED BY <1>3, <1>5, <1>6

LEMMA InitImplements == Init => Promise!Init
  BY HighestOfFour DEF Init, Promise!Init, Promise!NotYet, Visible, Nothing

\* LoadFlags is when the configuration is in force; the rest stutters.
LEMMA StepImplements ==
  ASSUME IInv, [Next]_vars
  PROVE  [Promise!Load]_<<Sources, Visible>>
<1>0. GivenInv /\ LayerInv /\ FileSource' = FileSource
  BY StepGiven DEF IInv
<1>1. UNCHANGED given
  BY DEF Next, LoadDefaults, LoadFile, LoadEnv, LoadFlags, Validate, PrintConfig,
         RequirePKI, vars
<1>2. UNCHANGED Sources
  BY <1>0, <1>1 DEF Sources, given
<1>3. CASE LoadFlags
  <2>1. phase = "flags" /\ phase' = "validate" /\ ko' = Merged(FlagLayer)
    BY <1>3 DEF LoadFlags, Goes
  <2>2. /\ \A k \in Key : ko[k] # Absent
        /\ ko = Over(Over(Default, FileSource), environ)
    BY <1>0, <2>1 DEF LayerInv
  <2>3. Over(ko, FlagLayer) = Over(ko, flags)
    BY <1>0, <2>2, FlagLayerIsFlags DEF Over
  <2>4. ko' = Over(Over(Over(Default, FileSource), environ), flags)
    BY <2>1, <2>2, <2>3, MergedIsOver
  <2>5. ko' = [k \in Key |-> Sources[Promise!Highest(k)][k]]
    BY <2>4, HighestOfFour DEF Over
  <2>6. Visible = Nothing /\ Visible' = ko'
    BY <2>1 DEF Visible
  <2>7. Promise!Load
    BY <1>2, <2>5, <2>6 DEF Promise!Load, Promise!NotYet, Nothing, Visible, Sources
  <2> QED BY <2>7
<1>4. CASE LoadDefaults \/ LoadFile \/ LoadEnv
  <2>1. Visible' = Visible
    BY <1>4 DEF LoadDefaults, LoadFile, LoadEnv, Goes, Visible, Nothing
  <2> QED BY <1>2, <2>1
<1>5. CASE Validate \/ PrintConfig \/ RequirePKI
  <2>1. /\ ko' = ko
        /\ phase \notin {"defaults", "file", "env", "flags", "refused"}
        /\ phase' \notin {"defaults", "file", "env", "flags", "refused"}
    BY <1>0, <1>5 DEF Validate, PrintConfig, RequirePKI, Goes, GivenInv
  <2> QED BY <1>2, <2>1 DEF Visible
<1>6. CASE UNCHANGED vars
  BY <1>2, <1>6 DEF vars, Visible, Nothing
<1> QED BY <1>3, <1>4, <1>5, <1>6 DEF Next

\* LoadsWhatIsPromised: merging the four sources one after the other, as
\* config.Load does, implements the precedence of module Precedence.
THEOREM ConfigImplementsPrecedence == Spec => LoadsWhatIsPromised
<1>1. IInv /\ [Next]_vars => [Promise!Load]_<<Sources, Visible>>
  BY StepImplements
<1> QED BY <1>1, InitImplements, Inductive, PTL
        DEF Spec, LoadsWhatIsPromised, Promise!Spec, Sources, Visible

-------------------------------------------------------------------------------
(* The profiles. *)

\* A map holds these files and no others, each under a name of its own.
Holds(map, set) ==
    /\ DOMAIN map = {f.name : f \in set}
    /\ \A f \in set : Parses(f) /\ map[f.name] = Parsed(f)
    /\ \A f, g \in set : f.name = g.name => f = g

\* Routes as parse returns them.
Fresh == {r \in [hosts : SUBSET Name, script : BOOLEAN,
                 body : [array : Arrays, len : {1}]] :
            r.hosts # {} /\ \A h \in r.hosts : NormalizeHost(h) = h}

\* Routes after AppendJavaScript: some bodies are longer or have moved.
Routed == {r \in [hosts : SUBSET Name, script : BOOLEAN,
                  body : [array : Arrays \union ({0} \X Nat), len : {1, 2}]] :
             r.hosts # {}}

StageInv ==
    /\ stage \in {"bundled", "operator", "refused", "loaded", "unknown profile",
                  "host refused", "routes", "serving"}
    /\ tree \in Trees /\ enabled \in EnabledLists /\ toast \in BOOLEAN
    /\ todo \subseteq BundledFiles \union tree

WalkInv ==
    /\ stage = "bundled" =>
          todo \subseteq BundledFiles /\ Holds(items, BundledFiles \ todo)
    /\ stage = "operator" =>
          /\ todo \subseteq tree /\ Holds(items, tree \ todo)
          /\ Holds(bundled, BundledFiles)
    /\ Loaded => \A n \in DOMAIN items :
                    Source(n) \in BundledFiles \union tree /\ Parses(Source(n))
    /\ LoadedIsOverlay

RouterInv ==
    /\ router \in Seq(Routed) /\ next \in 1..Len(router) + 1
    /\ stage \notin {"routes", "serving"} => router = <<>> /\ next = 1
    /\ stage \in {"routes", "serving"} => cfgHosts # {}
    /\ ~toast => next = 1
    /\ stage = "serving" /\ toast => next = Len(router) + 1

Toasted(i) == i < next /\ router[i].script

(***************************************************************************)
(* Every array that was read has a body and at most one toast behind it,   *)
(* whoever wrote it; a route that has its toast sees one, and one that has *)
(* not does not see what is behind its body.                               *)
(***************************************************************************)
HeapInv ==
    /\ Arrays \subseteq DOMAIN heap
    /\ \A a \in Arrays : heap[a] \in {<<"body">>, <<"body", "free">>, <<"body", "toast">>}
    /\ \A i \in 1..Len(router) :
          LET body == router[i].body
          IN  /\ body.array \in DOMAIN heap
              /\ Toasted(i) => /\ body.array \in Arrays \union {<<0, i>>}
                               /\ body.len = 2 /\ heap[body.array] = <<"body", "toast">>
              /\ ~Toasted(i) => body.array \in Arrays /\ body.len = 1

ProfilesInv == StageInv /\ WalkInv /\ RouterInv /\ HeapInv

-------------------------------------------------------------------------------

\* Induction without a predicate: a set with 1 and all successors has all.
LEMMA AllFromOne ==
    ASSUME NEW P, 1 \in P, \A n \in Nat \ {0} : n \in P => n + 1 \in P
    PROVE  Nat \ {0} \subseteq P
<1> DEFINE rest == (Nat \ {0}) \ P
<1> SUFFICES ASSUME rest # {} PROVE FALSE
  OBVIOUS
<1>1. PICK n \in rest : \A m \in rest : ~(<<m, n>> \in OpToRel(<, Nat))
  <2>1. IsWellFoundedOn(OpToRel(<, Nat), Nat)
    BY NatLessThanWellFounded
  <2>2. rest \subseteq Nat
    OBVIOUS
  <2> HIDE DEF rest
  <2> QED BY <2>1, <2>2, WFMin
<1>2. n \in Nat /\ n # 0 /\ n # 1
  OBVIOUS
<1>3. n - 1 \in Nat \ {0} /\ n - 1 < n /\ (n - 1) + 1 = n
  BY <1>2
<1>4. n - 1 \notin rest
  BY <1>1, <1>2, <1>3 DEF OpToRel
<1> QED BY <1>3, <1>4

\* Concatenation of any number of sequences, one by one, has what is closed
\* under concatenation.
LEMMA FlattenStaysIn ==
    ASSUME NEW T, \A t, u \in T : t \o u \in T,
           NEW s \in Seq(T), s # <<>>
    PROVE  FlattenSeq(s) \in T
<1> DEFINE Upto(k, g) == g = [i \in 1..k |-> IF i = 1 THEN s[i] ELSE g[i - 1] \o s[i]]
           n == Len(s)
<1>0. n \in Nat \ {0} /\ \A i \in 1..n : s[i] \in T
  BY EmptySeq, ElementOfSeq
<1>1. \A k \in Nat \ {0} : \E g : Upto(k, g)
  <2> DEFINE P == {k \in Nat \ {0} : \E g : Upto(k, g)}
  <2>1. 1 \in P
    <3>1. Upto(1, [i \in 1..1 |-> s[1]])
      OBVIOUS
    <3> HIDE DEF Upto
    <3> QED BY <3>1
  <2>2. ASSUME NEW k \in Nat \ {0}, k \in P PROVE k + 1 \in P
    <3>1. PICK g : Upto(k, g)
      BY <2>2
    <3> DEFINE h == [i \in 1..k + 1 |-> IF i = k + 1 THEN g[k] \o s[i] ELSE g[i]]
    <3>2. Upto(k + 1, h)
      <4>1. ASSUME NEW i \in 1..k + 1
            PROVE  h[i] = IF i = 1 THEN s[i] ELSE h[i - 1] \o s[i]
        <5>1. \A j \in 1..k : g[j] = IF j = 1 THEN s[j] ELSE g[j - 1] \o s[j]
          BY <3>1
        <5>2. CASE i = k + 1
          <6>1. i # 1 /\ i - 1 = k /\ k \in 1..k + 1 /\ k # k + 1
            BY <5>2
          <6> QED BY <5>2, <6>1
        <5>3. CASE i # k + 1
          <6>1. i \in 1..k /\ (i # 1 => i - 1 \in 1..k + 1 /\ i - 1 # k + 1)
            BY <5>3
          <6>2. h[i] = g[i] /\ (i # 1 => h[i - 1] = g[i - 1])
            BY <5>3, <6>1
          <6> HIDE DEF h
          <6> QED BY <5>1, <6>1, <6>2
        <5> QED BY <5>2, <5>3
      <4>2. h = [i \in 1..k + 1 |-> h[i]]
        OBVIOUS
      <4> HIDE DEF h
      <4> QED BY <4>1, <4>2
    <3> HIDE DEF Upto
    <3> QED BY <3>2
  <2> HIDE DEF P
  <2>3. Nat \ {0} \subseteq P
    BY <2>1, <2>2, AllFromOne
  <2> QED BY <2>3 DEF P
<1>2. \E g : Upto(n, g) /\ FlattenSeq(s) = g[n]
  <2>1. \E g : Upto(n, g)
    BY <1>0, <1>1
  <2>2. n # 0
    BY <1>0
  <2> QED BY <2>1, <2>2 DEF FlattenSeq
<1>3. PICK g : Upto(n, g) /\ FlattenSeq(s) = g[n]
  BY <1>2
<1>4. \A i \in 1..n : g[i] = IF i = 1 THEN s[i] ELSE g[i - 1] \o s[i]
  BY <1>3
<1> HIDE DEF n, Upto
<1>5. \A k \in Nat \ {0} : k <= n => g[k] \in T
  <2> DEFINE P == {k \in Nat \ {0} : k <= n => g[k] \in T}
  <2>1. 1 \in P
    BY <1>0, <1>4
  <2>2. ASSUME NEW k \in Nat \ {0}, k \in P PROVE k + 1 \in P
    <3>1. CASE k + 1 <= n
      <4>1. g[k] \in T /\ s[k + 1] \in T
        BY <1>0, <2>2, <3>1
      <4>2. k + 1 \in 1..n /\ k + 1 # 1 /\ (k + 1) - 1 = k
        BY <1>0, <3>1
      <4>3. g[k + 1] = g[k] \o s[k + 1]
        BY <1>4, <4>2
      <4>4. g[k + 1] \in T
        BY <4>1, <4>3
      <4> QED BY <4>4
    <3> QED BY <3>1
  <2> HIDE DEF P
  <2>3. Nat \ {0} \subseteq P
    BY <2>1, <2>2, AllFromOne
  <2> QED BY <2>3 DEF P
<1> QED BY <1>0, <1>3, <1>5

-------------------------------------------------------------------------------
(* Files and the routes that they become. *)

\* The length of a sequence is known by its domain.
LEMMA LenOfDomain ==
    ASSUME NEW S, NEW s \in Seq(S), NEW n \in Nat \ {0}, DOMAIN s = 1..n
    PROVE  Len(s) = n /\ s # <<>>
<1>1. DOMAIN s = 1..Len(s) /\ Len(s) \in Nat
  BY LenProperties
<1>2. Len(s) = n
  BY <1>1
<1> QED BY <1>2, EmptySeq

\* A file that parses has routes, with hosts that are normalised.
LEMMA ParsedRoutes ==
    ASSUME tree \in Trees, NEW f \in BundledFiles \union tree, Parses(f)
    PROVE  Parsed(f) \in Seq(Fresh) \ {<<>>}
<1> DEFINE n == Len(f.routes)
           route(i) == [hosts |-> f.routes[i].hosts, script |-> f.routes[i].script,
                        body |-> [array |-> <<f.file, i>>, len |-> 1]]
<1>1. f.routes \in Seq(RouteRead)
  BY FilesAreTyped
<1>2. /\ n \in Nat \ {0} /\ DOMAIN f.routes = 1..n
      /\ \A i \in 1..n : f.routes[i] \in RouteRead
  <2>1. f.routes # <<>>
    BY DEF Parses
  <2> QED BY <1>1, <2>1, EmptySeq, LenProperties, ElementOfSeq
<1>3. ASSUME NEW i \in 1..n
      PROVE  route(i) \in Fresh
  <2>1. /\ f.routes[i].hosts \in SUBSET Name /\ f.routes[i].script \in BOOLEAN
    BY <1>2 DEF RouteRead
  <2>2. /\ f.routes[i].hosts # {}
        /\ \A h \in f.routes[i].hosts : NormalizeHost(h) = h
    BY <1>2 DEF Parses, ValidRoute, ValidHost
  <2>3. <<f.file, i>> \in Arrays
    BY <1>2 DEF Arrays
  <2> QED BY <2>1, <2>2, <2>3 DEF Fresh
<1>4. Parsed(f) = [i \in 1..n |-> route(i)]
  BY <1>2 DEF Parsed
<1>5. Parsed(f) \in [1..n -> Fresh]
  <2> HIDE DEF n, route
  <2> QED BY <1>3, <1>4
<1>6. Parsed(f) \in Seq(Fresh)
  <2> HIDE DEF n, route
  <2> QED BY <1>2, <1>5, SeqDef
<1>7. Parsed(f) # <<>>
  <2>1. DOMAIN Parsed(f) = 1..n
    BY <1>4
  <2> HIDE DEF n, route
  <2> QED BY <1>2, <1>6, <2>1, LenOfDomain
<1> QED BY <1>6, <1>7

\* One more file that parses, under a new name.
LEMMA HoldsOneMore ==
    ASSUME NEW map, NEW set, Holds(map, set),
           NEW f, Parses(f), f.name \notin DOMAIN map
    PROVE  Holds(With(map, f.name, Parsed(f)), set \union {f})
<1> DEFINE more == With(map, f.name, Parsed(f))
<1>1. \A g \in set : g.name \in DOMAIN map /\ g.name # f.name
  BY DEF Holds
<1>2. DOMAIN more = DOMAIN map \union {f.name}
  BY DEF With
<1>3. more[f.name] = Parsed(f) /\ \A n \in DOMAIN map : n # f.name => more[n] = map[n]
  BY DEF With
<1>4. DOMAIN more = {g.name : g \in set \union {f}}
  BY <1>2 DEF Holds
<1>5. \A g \in set \union {f} : Parses(g) /\ more[g.name] = Parsed(g)
  BY <1>1, <1>3 DEF Holds
<1>6. \A g, h \in set \union {f} : g.name = h.name => g = h
  BY <1>1 DEF Holds
<1> QED BY <1>4, <1>5, <1>6 DEF Holds

\* What is loaded is for each name what its source says, an operator's before
\* a bundled one.
LEMMA OverlaidIsSource ==
    ASSUME NEW own, NEW base, Holds(own, tree), Holds(base, BundledFiles), NEW n,
           n \in DOMAIN own \union DOMAIN base
    PROVE  /\ Source(n) \in (IF n \in DOMAIN own THEN tree ELSE BundledFiles)
           /\ Source(n).name = n /\ Parses(Source(n))
           /\ (IF n \in DOMAIN own THEN own[n] ELSE base[n]) = Parsed(Source(n))
           /\ \A f \in tree : f.name = n => Source(n) = f
<1>1. CASE n \in DOMAIN own
  <2>1. PICK f \in tree : f.name = n
    BY <1>1 DEF Holds
  <2>2. {g \in tree : g.name = n} = {f}
    BY <2>1 DEF Holds
  <2>3. Source(n) = f
    BY <2>2 DEF Source
  <2> QED BY <1>1, <2>1, <2>2, <2>3 DEF Holds
<1>2. CASE n \notin DOMAIN own
  <2>1. PICK f \in BundledFiles : f.name = n
    BY <1>2 DEF Holds
  <2>2. {g \in tree : g.name = n} = {}
    BY <1>2 DEF Holds
  <2>3. {g \in BundledFiles : g.name = n} = {f}
    BY <2>1 DEF Holds
  <2>4. Source(n) = f
    BY <2>2, <2>3 DEF Source
  <2> QED BY <1>2, <2>1, <2>2, <2>4 DEF Holds
<1> QED BY <1>1, <1>2

\* NewRouter has routes that were parsed, and no other.
LEMMA RouterIsFresh ==
    ASSUME StageInv, WalkInv, Loaded, enabled # <<>>,
           \A i \in DOMAIN enabled : enabled[i] \in DOMAIN items
    PROVE  NewRouter \in Seq(Fresh) \ {<<>>}
<1> DEFINE T == Seq(Fresh) \ {<<>>}
           n == Len(enabled)
           s == [i \in DOMAIN enabled |-> items[enabled[i]]]
<1>1. n \in Nat \ {0} /\ DOMAIN enabled = 1..n
  <2>1. enabled \in Seq(STRING)
    BY FilesAreTyped DEF StageInv
  <2> QED BY <2>1, EmptySeq, LenProperties
<1>2. \A name \in DOMAIN items : items[name] \in T
  <2> SUFFICES ASSUME NEW name \in DOMAIN items PROVE items[name] \in T
    OBVIOUS
  <2>1. /\ Source(name) \in BundledFiles \union tree /\ Parses(Source(name))
        /\ items[name] = Parsed(Source(name))
    BY DEF WalkInv, LoadedIsOverlay
  <2> QED BY <2>1, ParsedRoutes DEF StageInv
<1>3. s \in [1..n -> T]
  <2> HIDE DEF T, n
  <2> QED BY <1>1, <1>2
<1>4. s \in Seq(T) /\ s # <<>>
  <2>1. s \in Seq(T)
    <3> HIDE DEF T, n, s
    <3> QED BY <1>1, <1>3, SeqDef
  <2>2. DOMAIN s = 1..n
    BY <1>1
  <2> HIDE DEF n, s, T
  <2> QED BY <1>1, <2>1, <2>2, LenOfDomain
<1>5. \A t, u \in T : t \o u \in T
  BY ConcatProperties, ConcatEqualIffEmpty
<1>6. FlattenSeq(s) \in T
  <2> HIDE DEF T, n, s
  <2> QED BY <1>4, <1>5, FlattenStaysIn
<1> QED BY <1>6 DEF NewRouter

-------------------------------------------------------------------------------
(* The invariant: every step keeps it. *)

LEMMA ProfilesStart == ProfilesInit => ProfilesInv
<1> SUFFICES ASSUME ProfilesInit PROVE ProfilesInv
  OBVIOUS
<1>1. StageInv
  BY DEF ProfilesInit, StageInv
<1>2. Holds(items, BundledFiles \ todo)
  <2>1. DOMAIN items = {}
    BY DEF ProfilesInit, Empty
  <2> QED BY <2>1 DEF ProfilesInit, Holds
<1>3. WalkInv
  BY <1>2 DEF ProfilesInit, WalkInv, LoadedIsOverlay, Loaded
<1>4. router = <<>> /\ Len(router) = 0 /\ router \in Seq(Routed)
  BY EmptySeq DEF ProfilesInit
<1>5. RouterInv
  BY <1>4 DEF ProfilesInit, RouterInv
<1>6. HeapInv
  <2>1. /\ DOMAIN heap = Arrays
        /\ \A a \in Arrays : heap[a] \in {<<"body">>, <<"body", "free">>}
    BY DEF ProfilesInit
  <2> QED BY <1>4, <2>1 DEF HeapInv
<1> QED BY <1>1, <1>3, <1>5, <1>6 DEF ProfilesInv

\* What was loaded stays, from then on.
LEMMA LoadedStays ==
    ASSUME ProfilesInv, Loaded, UNCHANGED <<startup, loading>>,
           stage' \in {"loaded", "unknown profile", "routes", "serving"}
    PROVE  StageInv' /\ WalkInv'
<1> USE DEF startup, loading
<1>1. Loaded'
  BY DEF Loaded
<1>2. \A n : Source(n)' = Source(n)
  BY DEF Source
<1>3. StageInv'
  BY DEF ProfilesInv, StageInv
<1>4. LoadedIsOverlay'
  BY <1>1, <1>2 DEF ProfilesInv, WalkInv, LoadedIsOverlay
<1> QED BY <1>1, <1>2, <1>3, <1>4 DEF ProfilesInv, WalkInv

\* The arrays and the routes stay as long as Validate has not run.
LEMMA ServingStays ==
    ASSUME ProfilesInv, UNCHANGED <<startup, serving>>,
           stage \notin {"routes", "serving"}, stage' \notin {"routes", "serving"}
    PROVE  RouterInv' /\ HeapInv'
<1> USE DEF startup, serving
<1>1. Arrays' = Arrays
  BY DEF Arrays
<1>2. Routed' = Routed
  BY <1>1 DEF Routed
<1>3. RouterInv'
  BY <1>2 DEF ProfilesInv, RouterInv
<1>4. \A i : Toasted(i)' <=> Toasted(i)
  BY DEF Toasted
<1>5. HeapInv'
  BY <1>1, <1>4 DEF ProfilesInv, HeapInv
<1> QED BY <1>3, <1>5

LEMMA VisitKeeps ==
    ASSUME ProfilesInv, NEW f \in todo, Visit(f)
    PROVE  ProfilesInv'
<1>1. RouterInv' /\ HeapInv'
  BY ServingStays DEF Visit
<1>2. f \in BundledFiles \union tree
  BY DEF ProfilesInv, StageInv
<1>3. CASE stage' = "refused"
  <2>1. ~Loaded' /\ stage' # "host refused"
    BY <1>3 DEF Loaded
  <2>2. StageInv'
    BY <1>3 DEF Visit, ProfilesInv, StageInv, startup
  <2>3. WalkInv'
    BY <1>3, <2>1 DEF WalkInv, LoadedIsOverlay
  <2> QED BY <1>1, <2>2, <2>3 DEF ProfilesInv
<1>4. CASE stage' # "refused"
  <2>1. /\ stage \in {"bundled", "operator"} /\ stage' = stage
        /\ Parses(f) /\ f.name \notin DOMAIN items
        /\ todo' = todo \ {f} /\ items' = With(items, f.name, Parsed(f))
        /\ tree' = tree /\ enabled' = enabled /\ toast' = toast
        /\ bundled' = bundled
    BY <1>4 DEF Visit, startup
  <2>2. StageInv'
    BY <2>1 DEF ProfilesInv, StageInv
  <2>3. ~Loaded' /\ stage' # "host refused"
    BY <2>1 DEF Loaded
  <2>4. ASSUME stage = "bundled"
        PROVE  todo' \subseteq BundledFiles /\ Holds(items', BundledFiles \ todo')
    <3>1. todo \subseteq BundledFiles /\ Holds(items, BundledFiles \ todo)
      BY <2>4 DEF ProfilesInv, WalkInv
    <3>2. BundledFiles \ todo' = (BundledFiles \ todo) \union {f}
      BY <2>1, <3>1
    <3> QED BY <2>1, <3>1, <3>2, HoldsOneMore
  <2>5. ASSUME stage = "operator"
        PROVE  /\ todo' \subseteq tree /\ Holds(items', tree' \ todo')
               /\ Holds(bundled', BundledFiles)
    <3>1. /\ todo \subseteq tree /\ Holds(items, tree \ todo)
          /\ Holds(bundled, BundledFiles)
      BY <2>5 DEF ProfilesInv, WalkInv
    <3>2. tree' \ todo' = (tree \ todo) \union {f}
      BY <2>1, <3>1
    <3> QED BY <2>1, <3>1, <3>2, HoldsOneMore
  <2>6. WalkInv'
    BY <2>1, <2>3, <2>4, <2>5 DEF WalkInv, LoadedIsOverlay
  <2> QED BY <1>1, <2>2, <2>6 DEF ProfilesInv
<1> QED BY <1>3, <1>4

LEMMA NextWalkKeeps ==
    ASSUME ProfilesInv, NextWalk
    PROVE  ProfilesInv'
<1>0. /\ stage = "bundled" /\ stage' = "operator" /\ todo = {} /\ todo' = tree
      /\ bundled' = items /\ items' = Empty
      /\ tree' = tree /\ enabled' = enabled /\ toast' = toast
  BY DEF NextWalk, startup
<1>1. RouterInv' /\ HeapInv'
  BY <1>0, ServingStays DEF NextWalk
<1>2. StageInv'
  BY <1>0 DEF ProfilesInv, StageInv
<1>3. Holds(bundled', BundledFiles)
  <2>1. BundledFiles \ todo = BundledFiles
    BY <1>0
  <2> QED BY <1>0, <2>1 DEF ProfilesInv, WalkInv
<1>4. Holds(items', tree' \ todo')
  <2>1. DOMAIN items' = {} /\ tree' \ todo' = {}
    BY <1>0 DEF Empty
  <2> QED BY <2>1 DEF Holds
<1>5. WalkInv'
  BY <1>0, <1>3, <1>4 DEF WalkInv, LoadedIsOverlay, Loaded
<1> QED BY <1>1, <1>2, <1>5 DEF ProfilesInv

LEMMA OverlayKeeps ==
    ASSUME ProfilesInv, Overlay
    PROVE  ProfilesInv'
<1>0. /\ stage = "operator" /\ stage' = "loaded" /\ todo = {} /\ todo' = todo
      /\ items' = [n \in DOMAIN bundled \union DOMAIN items |->
                     IF n \in DOMAIN items THEN items[n] ELSE bundled[n]]
      /\ tree' = tree /\ enabled' = enabled /\ toast' = toast
  BY DEF Overlay, startup
<1>1. RouterInv' /\ HeapInv'
  BY <1>0, ServingStays DEF Overlay
<1>2. StageInv'
  BY <1>0 DEF ProfilesInv, StageInv
<1>3. Holds(items, tree) /\ Holds(bundled, BundledFiles)
  <2>1. tree \ todo = tree
    BY <1>0
  <2> QED BY <1>0, <2>1 DEF ProfilesInv, WalkInv
<1>4. \A n : Source(n)' = Source(n)
  BY <1>0 DEF Source
<1>5. ASSUME NEW n \in DOMAIN items'
      PROVE  /\ items'[n] = Parsed(Source(n))
             /\ Source(n) \in BundledFiles \union tree /\ Parses(Source(n))
  <2>1. n \in DOMAIN items \union DOMAIN bundled
    BY <1>0
  <2>2. items'[n] = IF n \in DOMAIN items THEN items[n] ELSE bundled[n]
    BY <1>0, <2>1
  <2>3. /\ Source(n) \in (IF n \in DOMAIN items THEN tree ELSE BundledFiles)
        /\ Parses(Source(n))
        /\ (IF n \in DOMAIN items THEN items[n] ELSE bundled[n]) = Parsed(Source(n))
    BY <1>3, <2>1, OverlaidIsSource
  <2> QED BY <2>2, <2>3
<1>6. DOMAIN items' = {f.name : f \in BundledFiles \union tree}
  BY <1>0, <1>3 DEF Holds
<1>7. \A f \in tree : Parses(f) /\ Source(f.name) = f
  <2> SUFFICES ASSUME NEW f \in tree PROVE Parses(f) /\ Source(f.name) = f
    OBVIOUS
  <2>1. f.name \in DOMAIN items /\ Parses(f)
    BY <1>3 DEF Holds
  <2> QED BY <1>3, <2>1, OverlaidIsSource
<1>8. LoadedIsOverlay'
  BY <1>0, <1>4, <1>5, <1>6, <1>7 DEF LoadedIsOverlay
<1>9. WalkInv'
  BY <1>0, <1>4, <1>5, <1>8 DEF WalkInv
<1> QED BY <1>1, <1>2, <1>9 DEF ProfilesInv

\* Hosts that are derived from routes are as they are written, so each is
\* provided by the route that it comes from: Validate refuses none.
LEMMA DerivedHosts ==
    ASSUME NewRouter \in Seq(Fresh) \ {<<>>}
    PROVE  LET normal == {NormalizeHost(h) : h \in Derived}
           IN  normal # {} /\ \A h \in normal : h # Invalid /\ ProfilesMatch(h)
<1> DEFINE normal == {NormalizeHost(h) : h \in Derived}
<1>1. /\ DOMAIN NewRouter = 1..Len(NewRouter) /\ 1 \in DOMAIN NewRouter
      /\ \A i \in DOMAIN NewRouter : NewRouter[i] \in Fresh
  <2>1. NewRouter \in Seq(Fresh) /\ Len(NewRouter) \in Nat \ {0}
    BY EmptySeq
  <2> QED BY <2>1, LenProperties, ElementOfSeq
<1>2. ASSUME NEW h \in Derived
      PROVE  /\ NormalizeHost(h) = h /\ h \in Name
             /\ \E i \in DOMAIN NewRouter : h \in NewRouter[i].hosts
  BY <1>1 DEF Derived, AllHosts, Fresh
<1>3. ASSUME NEW h \in normal
      PROVE  h # Invalid /\ ProfilesMatch(h)
  <2>1. h \in Derived
    BY <1>2
  <2>2. Matches(h, h)
    BY DEF Matches
  <2> QED BY <1>2, <2>1, <2>2 DEF ProfilesMatch, Name
<1>4. normal # {}
  <2>1. NewRouter[1] \in Fresh
    BY <1>1
  <2>2. PICK h : h \in NewRouter[1].hosts
    BY <2>1 DEF Fresh
  <2>3. h \in Derived
    BY <1>1, <2>2 DEF Derived, AllHosts
  <2> QED BY <2>3
<1> QED BY <1>3, <1>4

LEMMA ValidateProfilesKeeps ==
    ASSUME ProfilesInv, ValidateProfiles
    PROVE  ProfilesInv'
<1>0. stage = "loaded" /\ Loaded /\ UNCHANGED <<startup, loading>>
  BY DEF ValidateProfiles, Loaded
<1>1. CASE enabled = <<>> \/ \E i \in DOMAIN enabled : enabled[i] \notin DOMAIN items
  <2>1. stage' = "unknown profile" /\ UNCHANGED serving
    BY <1>1 DEF ValidateProfiles
  <2> QED BY <1>0, <2>1, LoadedStays, ServingStays DEF ProfilesInv
<1>2. CASE ~(enabled = <<>> \/ \E i \in DOMAIN enabled : enabled[i] \notin DOMAIN items)
  <2>1. NewRouter \in Seq(Fresh) \ {<<>>}
    BY <1>0, <1>2, RouterIsFresh DEF ProfilesInv
  <2>2. /\ cfgHosts' = {NormalizeHost(h) : h \in Derived}
        /\ stage' = IF \A h \in cfgHosts' : h # Invalid /\ ProfilesMatch(h)
                    THEN "routes" ELSE "host refused"
        /\ router' = NewRouter /\ heap' = heap /\ next' = next
    BY <1>2 DEF ValidateProfiles
  <2>3. cfgHosts' # {} /\ stage' = "routes"
    BY <2>1, <2>2, DerivedHosts
  <2>4. StageInv' /\ WalkInv'
    BY <1>0, <2>3, LoadedStays
  <2>5. /\ tree' = tree /\ toast' = toast /\ next' = 1
        /\ Arrays' = Arrays
    BY <1>0, <2>2 DEF startup, Arrays, ProfilesInv, RouterInv
  <2>6. /\ router' \in Seq(Fresh) /\ Len(router') \in Nat \ {0}
        /\ \A i \in 1..Len(router') : router'[i] \in Fresh
    BY <2>1, <2>2, EmptySeq, ElementOfSeq
  <2>7. RouterInv'
    <3>1. Fresh \subseteq Routed
      BY DEF Fresh, Routed
    <3>2. Routed' = Routed
      BY <2>5 DEF Routed
    <3>3. router' \in Seq(Routed)
      BY <2>6, <3>1, SeqMonotonic
    <3> QED BY <2>3, <2>5, <2>6, <3>2, <3>3 DEF RouterInv
  <2>8. HeapInv'
    <3>1. \A i \in 1..Len(router') : ~Toasted(i)'
      BY <2>5, <2>6 DEF Toasted
    <3>2. \A i \in 1..Len(router') :
             router'[i].body.array \in Arrays /\ router'[i].body.len = 1
      BY <2>6 DEF Fresh
    <3>3. /\ Arrays \subseteq DOMAIN heap
          /\ \A a \in Arrays : heap[a] \in {<<"body">>, <<"body", "free">>, <<"body", "toast">>}
      BY DEF ProfilesInv, HeapInv
    <3> QED BY <2>2, <2>5, <3>1, <3>2, <3>3 DEF HeapInv
  <2> QED BY <2>4, <2>7, <2>8 DEF ProfilesInv
<1> QED BY <1>1, <1>2

\* The next route: its slice and what AppendTo writes, in either array.
LEMMA AppendedTo ==
    ASSUME ProfilesInv, next \in 1..Len(router), router[next].script,
           AppendTo(next, router[next].body)
    PROVE  LET old == router[next].body.array
               array == router'[next].body.array
           IN  /\ old \in Arrays /\ array \in {old, <<0, next>>}
               /\ array = old => heap[old] # <<"body">>
               /\ array # old => array \notin Arrays
               /\ heap' = [a \in DOMAIN heap \union {array} |->
                             IF a = array THEN <<"body", "toast">> ELSE heap[a]]
               /\ router' = [router EXCEPT ![next] =
                               [@ EXCEPT !.body = [array |-> array, len |-> 2]]]
<1> DEFINE old == router[next].body.array
<1>1. /\ router \in Seq(Routed) /\ DOMAIN router = 1..Len(router)
      /\ router[next] \in Routed /\ next \in Nat \ {0}
  <2>1. router \in Seq(Routed) /\ next \in 1..Len(router)
    BY DEF ProfilesInv, RouterInv
  <2> QED BY <2>1, LenProperties, ElementOfSeq
<1>2. ~Toasted(next)
  BY <1>1 DEF Toasted
<1>3. /\ old \in Arrays /\ router[next].body.len = 1 /\ old \in DOMAIN heap
      /\ heap[old] \in {<<"body">>, <<"body", "free">>, <<"body", "toast">>}
  BY <1>2 DEF ProfilesInv, HeapInv
<1> DEFINE slice == router[next].body
           fits == 2 <= Len(heap[old])
           array == IF fits THEN old ELSE <<0, next>>
<1>a. /\ heap' = IF fits THEN [heap EXCEPT ![array] = [@ EXCEPT ![2] = "toast"]]
                 ELSE With(heap, array, Append(Bytes(slice), "toast"))
      /\ router' = [router EXCEPT ![next] =
                       [@ EXCEPT !.body = [array |-> array, len |-> 2]]]
  <2>1. slice.len + 1 = 2
    BY <1>3
  <2> QED BY <2>1 DEF AppendTo
<1>4. <<0, next>> \notin Arrays
  <2>1. \A f \in BundledFiles \union tree : f.file > 0
    BY FilesAreNumbered DEF ProfilesInv, StageInv
  <2> QED BY <2>1 DEF Arrays
<1>5. CASE heap[old] = <<"body">>
  <2>1. ~(2 <= Len(heap[old]))
    BY <1>5
  <2>2. SubSeq(<<"body">>, 1, 1) = <<"body">>
    <3>1. <<"body">> \in Seq({"body"}) /\ Len(<<"body">>) = 1
      OBVIOUS
    <3> QED BY <3>1, SubSeqFull
  <2>3. Append(<<"body">>, "toast") = <<"body", "toast">>
    <3> DEFINE S == {"body", "toast"}
               one == <<"body">>
               two == <<"body", "toast">>
    <3>1. /\ one \in Seq(S) /\ Len(one) = 1 /\ one[1] = "body"
          /\ two \in Seq(S) /\ Len(two) = 2 /\ two[1] = "body" /\ two[2] = "toast"
      OBVIOUS
    <3>2. "toast" \in S
      OBVIOUS
    <3> HIDE DEF S, one, two
    <3>3. /\ Append(one, "toast") \in Seq(S) /\ Len(Append(one, "toast")) = 2
          /\ Append(one, "toast")[1] = "body" /\ Append(one, "toast")[2] = "toast"
      <4> DEFINE more == Append(one, "toast")
      <4>1. /\ more \in Seq(S) /\ Len(more) = Len(one) + 1
            /\ \A i \in 1..Len(one) : more[i] = one[i]
            /\ more[Len(one) + 1] = "toast"
        <5>1. one \in Seq(S)
          BY <3>1
        <5> QED BY <3>2, <5>1, AppendProperties
      <4> HIDE DEF more
      <4>2. Len(one) + 1 = 2 /\ 1 \in 1..Len(one)
        BY <3>1
      <4>3. more[1] = "body" /\ more[2] = "toast" /\ Len(more) = 2
        BY <3>1, <4>1, <4>2
      <4> QED BY <4>1, <4>3 DEF more
    <3>4. \A i \in 1..2 : i = 1 \/ i = 2
      OBVIOUS
    <3>5. Append(one, "toast") = two
      BY <3>1, <3>3, <3>4, SeqEqual
    <3> QED BY <3>5 DEF one, two
  <2>4. Append(Bytes(router[next].body), "toast") = <<"body", "toast">>
    BY <1>3, <1>5, <2>2, <2>3 DEF Bytes
  <2>5. /\ heap' = With(heap, <<0, next>>, <<"body", "toast">>)
        /\ router' = [router EXCEPT ![next] =
                        [@ EXCEPT !.body = [array |-> <<0, next>>, len |-> 2]]]
    BY <1>a, <2>1, <2>4
  <2>6. router'[next].body.array = <<0, next>>
    BY <1>1, <2>5 DEF Routed
  <2> QED BY <1>3, <1>4, <1>5, <2>5, <2>6 DEF With
<1>6. CASE heap[old] # <<"body">>
  <2>1. 2 <= Len(heap[old]) /\ [heap[old] EXCEPT ![2] = "toast"] = <<"body", "toast">>
    BY <1>3, <1>6
  <2>2. /\ heap' = [heap EXCEPT ![old] = <<"body", "toast">>]
        /\ router' = [router EXCEPT ![next] =
                        [@ EXCEPT !.body = [array |-> old, len |-> 2]]]
    BY <1>3, <1>a, <2>1
  <2>3. router'[next].body.array = old
    BY <1>1, <2>2 DEF Routed
  <2> QED BY <1>3, <1>6, <2>2, <2>3
<1> QED BY <1>5, <1>6

LEMMA AppendJavaScriptKeeps ==
    ASSUME ProfilesInv, AppendJavaScript
    PROVE  ProfilesInv'
<1>0. /\ stage = "routes" /\ stage' = "routes" /\ toast /\ next' = next + 1
      /\ Loaded /\ UNCHANGED <<startup, loading>> /\ cfgHosts' = cfgHosts
      /\ tree' = tree /\ toast' = toast
  BY DEF AppendJavaScript, Loaded, startup
<1>1. StageInv' /\ WalkInv'
  BY <1>0, LoadedStays
<1>2. /\ router \in Seq(Routed) /\ DOMAIN router = 1..Len(router) /\ Len(router) \in Nat
      /\ next \in 1..Len(router) /\ next \in Nat \ {0}
      /\ \A i \in 1..Len(router) : router[i] \in Routed
  <2>1. router \in Seq(Routed)
    BY DEF ProfilesInv, RouterInv
  <2> QED BY <2>1, LenProperties, ElementOfSeq DEF AppendJavaScript
<1>3. Arrays' = Arrays /\ Routed' = Routed
  BY <1>0 DEF Arrays, Routed
<1>4. next' \in 1..Len(router) + 1
  BY <1>0, <1>2
<1>5. CASE ~router[next].script
  <2>1. heap' = heap /\ router' = router
    BY <1>5 DEF AppendJavaScript
  <2>2. RouterInv'
    BY <1>0, <1>2, <1>3, <1>4, <2>1 DEF RouterInv, ProfilesInv
  <2>3. \A i \in 1..Len(router) : Toasted(i)' <=> Toasted(i)
    <3>1. \A i \in 1..Len(router) : i < next + 1 <=> i < next \/ i = next
      BY <1>2
    <3> QED BY <1>0, <1>5, <2>1, <3>1 DEF Toasted
  <2>4. HeapInv'
    BY <1>3, <2>1, <2>3 DEF HeapInv, ProfilesInv
  <2> QED BY <1>1, <2>2, <2>4 DEF ProfilesInv
<1>6. CASE router[next].script
  <2> DEFINE old == router[next].body.array
             array == router'[next].body.array
  <2>1. AppendTo(next, router[next].body)
    BY <1>6 DEF AppendJavaScript
  <2>2. /\ old \in Arrays /\ array \in {old, <<0, next>>}
        /\ array = old => heap[old] # <<"body">>
        /\ array # old => array \notin Arrays
        /\ heap' = [a \in DOMAIN heap \union {array} |->
                      IF a = array THEN <<"body", "toast">> ELSE heap[a]]
        /\ router' = [router EXCEPT ![next] =
                        [@ EXCEPT !.body = [array |-> array, len |-> 2]]]
    BY <1>2, <1>6, <2>1, AppendedTo
  <2> HIDE DEF array
  <2>3. [router[next] EXCEPT !.body = [array |-> array, len |-> 2]] \in Routed
    <3>1. array \in Arrays \union ({0} \X Nat)
      BY <1>2, <2>2
    <3>2. router[next] \in Routed
      BY <1>2
    <3> HIDE DEF old
    <3> QED BY <3>1, <3>2 DEF Routed
  <2>4. /\ router' \in Seq(Routed) /\ Len(router') = Len(router)
        /\ router'[next] = [router[next] EXCEPT !.body = [array |-> array, len |-> 2]]
        /\ \A i \in 1..Len(router) : i # next => router'[i] = router[i]
    BY <1>2, <2>2, <2>3, ExceptSeq
  <2>5. RouterInv'
    BY <1>0, <1>3, <1>4, <2>4 DEF RouterInv, ProfilesInv
  <2>6. /\ router'[next].script /\ router'[next].body.array = array
        /\ router'[next].body.len = 2
    BY <1>2, <1>6, <2>4 DEF Routed
  <2>7. \A i \in 1..Len(router) : Toasted(i)' <=> (Toasted(i) \/ i = next)
    <3>1. \A i \in 1..Len(router) : i < next + 1 <=> i < next \/ i = next
      BY <1>2
    <3> QED BY <1>0, <2>4, <2>6, <3>1 DEF Toasted
  <2>8. /\ Arrays \subseteq DOMAIN heap'
        /\ \A a \in Arrays :
              heap'[a] \in {<<"body">>, <<"body", "free">>, <<"body", "toast">>}
    BY <2>2 DEF HeapInv, ProfilesInv
  <2>9. ASSUME NEW i \in 1..Len(router)
        PROVE  LET body == router'[i].body
               IN  /\ body.array \in DOMAIN heap'
                   /\ Toasted(i)' => /\ body.array \in Arrays \union {<<0, i>>}
                                     /\ body.len = 2
                                     /\ heap'[body.array] = <<"body", "toast">>
                   /\ ~Toasted(i)' => body.array \in Arrays /\ body.len = 1
    <3>1. CASE i = next
      BY <2>2, <2>6, <2>7, <3>1
    <3>2. CASE i # next
      <4>1. /\ router'[i] = router[i]
            /\ Toasted(i)' <=> Toasted(i)
            /\ router[i].body.array \in DOMAIN heap
        BY <2>4, <2>7, <3>2 DEF HeapInv, ProfilesInv
      <4>2. heap'[router[i].body.array] =
              IF router[i].body.array = array THEN <<"body", "toast">>
              ELSE heap[router[i].body.array]
        BY <2>2, <4>1
      <4> DEFINE body == router[i].body
      <4>3. body.array \in DOMAIN heap' /\ router'[i].body = body
        BY <2>2, <4>1
      <4>4. ASSUME Toasted(i)
            PROVE  /\ body.array \in Arrays \union {<<0, i>>} /\ body.len = 2
                   /\ heap'[body.array] = <<"body", "toast">>
        BY <4>2, <4>4 DEF HeapInv, ProfilesInv
      <4>5. ASSUME ~Toasted(i)
            PROVE  body.array \in Arrays /\ body.len = 1
        BY <4>5 DEF HeapInv, ProfilesInv
      <4> HIDE DEF body
      <4> QED BY <4>1, <4>3, <4>4, <4>5
    <3> QED BY <3>1, <3>2
  <2>10. HeapInv'
    BY <1>3, <2>4, <2>8, <2>9 DEF HeapInv
  <2> QED BY <1>1, <2>5, <2>10 DEF ProfilesInv
<1> QED BY <1>5, <1>6

LEMMA ServeKeeps ==
    ASSUME ProfilesInv, Serve
    PROVE  ProfilesInv'
<1>0. /\ stage = "routes" /\ stage' = "serving" /\ Loaded
      /\ UNCHANGED <<startup, loading>>
      /\ tree' = tree /\ toast' = toast /\ cfgHosts' = cfgHosts
      /\ router' = router /\ heap' = heap /\ next' = next
  BY DEF Serve, Loaded, startup, serving
<1>1. StageInv' /\ WalkInv'
  BY <1>0, LoadedStays
<1>2. Arrays' = Arrays /\ Routed' = Routed
  BY <1>0 DEF Arrays, Routed
<1>3. toast => next = Len(router) + 1
  <2>1. /\ next \in 1..Len(router) + 1 /\ DOMAIN router = 1..Len(router)
        /\ Len(router) \in Nat
    BY LenProperties DEF ProfilesInv, RouterInv
  <2> QED BY <2>1 DEF Serve
<1>4. RouterInv'
  BY <1>0, <1>2, <1>3 DEF RouterInv, ProfilesInv
<1>5. \A i : Toasted(i)' <=> Toasted(i)
  BY <1>0 DEF Toasted
<1>6. HeapInv'
  BY <1>0, <1>2, <1>5 DEF HeapInv, ProfilesInv
<1> QED BY <1>1, <1>4, <1>6 DEF ProfilesInv

LEMMA ProfilesInvariant == ProfilesSpec => []ProfilesInv
<1>1. ASSUME ProfilesInv, [ProfilesNext]_profilesVars
      PROVE  ProfilesInv'
  <2>1. CASE UNCHANGED profilesVars
    <3>1. \A n : Source(n)' = Source(n)
      BY <2>1 DEF profilesVars, startup, Source
    <3>2. Arrays' = Arrays
      BY <2>1 DEF profilesVars, startup, Arrays
    <3>3. Routed' = Routed
      BY <3>2 DEF Routed
    <3>4. \A i : Toasted(i)' <=> Toasted(i)
      BY <2>1 DEF profilesVars, serving, Toasted
    <3>5. StageInv'
      BY <1>1, <2>1 DEF profilesVars, startup, loading, ProfilesInv, StageInv
    <3>6. LoadedIsOverlay' /\ Loaded' = Loaded
      BY <1>1, <2>1, <3>1 DEF profilesVars, startup, loading, ProfilesInv, WalkInv,
           LoadedIsOverlay, Loaded
    <3>7. WalkInv'
      BY <1>1, <2>1, <3>1, <3>6 DEF profilesVars, startup, loading, ProfilesInv, WalkInv
    <3>8. RouterInv'
      BY <1>1, <2>1, <3>3 DEF profilesVars, startup, serving, ProfilesInv, RouterInv
    <3>9. HeapInv'
      BY <1>1, <2>1, <3>2, <3>4 DEF profilesVars, serving, ProfilesInv, HeapInv
    <3> QED BY <3>5, <3>7, <3>8, <3>9 DEF ProfilesInv
  <2>2. CASE \E f \in todo : Visit(f)
    BY <1>1, <2>2, VisitKeeps
  <2>3. CASE NextWalk
    BY <1>1, <2>3, NextWalkKeeps
  <2>4. CASE Overlay
    BY <1>1, <2>4, OverlayKeeps
  <2>5. CASE ValidateProfiles
    BY <1>1, <2>5, ValidateProfilesKeeps
  <2>6. CASE AppendJavaScript
    BY <1>1, <2>6, AppendJavaScriptKeeps
  <2>7. CASE Serve
    BY <1>1, <2>7, ServeKeeps
  <2> QED BY <1>1, <2>1, <2>2, <2>3, <2>4, <2>5, <2>6, <2>7 DEF ProfilesNext
<1> QED BY <1>1, ProfilesStart, PTL DEF ProfilesSpec

-------------------------------------------------------------------------------
(* Theorems about the profiles, for any bundled files, trees and lists. *)

\* No slice is longer than the array behind it, for routes that share arrays
\* and arrays that have room or not; what is served has hosts.
THEOREM ProfilesSlicesFit == ProfilesSpec => []ProfilesTypeOK
<1>1. ASSUME ProfilesInv
      PROVE  ProfilesTypeOK
  <2>1. router \in Seq(Routed) /\ DOMAIN router = 1..Len(router)
    BY <1>1, LenProperties DEF ProfilesInv, RouterInv
  <2>2. /\ Len(<<"body">>) = 1 /\ Len(<<"body", "free">>) = 2
        /\ Len(<<"body", "toast">>) = 2
    OBVIOUS
  <2>3. ASSUME NEW i \in DOMAIN router
        PROVE  router[i].body.len <= Len(heap[router[i].body.array])
    <3> DEFINE body == router[i].body
    <3>1. CASE Toasted(i)
      <4>1. body.len = 2 /\ heap[body.array] = <<"body", "toast">>
        BY <1>1, <2>1, <3>1 DEF ProfilesInv, HeapInv
      <4> QED BY <2>2, <4>1
    <3>2. CASE ~Toasted(i)
      <4>1. /\ body.len = 1
            /\ heap[body.array] \in {<<"body">>, <<"body", "free">>, <<"body", "toast">>}
        BY <1>1, <2>1, <3>2 DEF ProfilesInv, HeapInv
      <4>2. Len(heap[body.array]) \in {1, 2}
        BY <2>2, <4>1
      <4> HIDE DEF body
      <4>3. \A n \in {1, 2} : 1 <= n
        OBVIOUS
      <4>4. 1 <= Len(heap[body.array])
        BY <4>2, <4>3
      <4> QED BY <4>1, <4>4 DEF body
    <3> QED BY <3>1, <3>2
  <2> QED BY <1>1, <2>3 DEF ProfilesInv, StageInv, RouterInv, ProfilesTypeOK
<1> QED BY <1>1, ProfilesInvariant, PTL

\* What is loaded is the bundled profiles overlaid with the operator's, in
\* whichever order the walks meet the files, and Config.Validate refuses no host
\* that it has derived itself.
THEOREM ProfilesLoadedIsOverlay == ProfilesSpec => []LoadedIsOverlay
<1>1. ProfilesInv => LoadedIsOverlay
  BY DEF ProfilesInv, WalkInv
<1> QED BY <1>1, ProfilesInvariant, PTL

\* Every script ends with one toast and no other body with any, for any lists
\* of profiles, which may name one several times.
THEOREM ProfilesOneToastPerScript == ProfilesSpec => []OneToastPerScript
<1>1. ASSUME ProfilesInv, stage = "serving", NEW i \in DOMAIN router
      PROVE  Bytes(router[i].body) =
                IF toast /\ router[i].script THEN <<"body", "toast">> ELSE <<"body">>
  <2> DEFINE body == router[i].body
             bodies == {"body", "toast", "free"}
  <2>1. /\ DOMAIN router = 1..Len(router) /\ Len(router) \in Nat
    BY <1>1, LenProperties DEF ProfilesInv, RouterInv
  <2>2. Toasted(i) <=> toast /\ router[i].script
    <3>1. toast => next = Len(router) + 1
      BY <1>1 DEF ProfilesInv, RouterInv
    <3>2. ~toast => next = 1
      BY <1>1 DEF ProfilesInv, RouterInv
    <3> QED BY <2>1, <3>1, <3>2 DEF Toasted
  <2>3. CASE Toasted(i)
    <3>1. body.len = 2 /\ heap[body.array] = <<"body", "toast">>
      BY <1>1, <2>1, <2>3 DEF ProfilesInv, HeapInv
    <3>2. SubSeq(<<"body", "toast">>, 1, 2) = <<"body", "toast">>
      <4>1. <<"body", "toast">> \in Seq(bodies) /\ Len(<<"body", "toast">>) = 2
        OBVIOUS
      <4> QED BY <4>1, SubSeqFull
    <3> QED BY <2>2, <2>3, <3>1, <3>2 DEF Bytes
  <2>4. CASE ~Toasted(i)
    <3>1. /\ body.len = 1
          /\ heap[body.array] \in {<<"body">>, <<"body", "free">>, <<"body", "toast">>}
      BY <1>1, <2>1, <2>4 DEF ProfilesInv, HeapInv
    <3>2. SubSeq(heap[body.array], 1, 1) = <<"body">>
      <4> DEFINE s == heap[body.array]
                 one == <<"body">>
      <4>1. /\ s[1] = "body" /\ s[1] \in bodies
            /\ one \in Seq(bodies) /\ Len(one) = 1 /\ one[1] = "body"
        <5>1. s = <<"body">> \/ s = <<"body", "free">> \/ s = <<"body", "toast">>
          BY <3>1
        <5> QED BY <5>1
      <4>2. \A j \in 1..1 : s[j] \in bodies
        <5> HIDE DEF s
        <5> QED BY <4>1
      <4>3. 1 \in Int /\ 1 - 1 + 1 = 1 /\ 1 \in 1..1 /\ \A j \in 1..1 : j = 1
        OBVIOUS
      <4> HIDE DEF s, bodies, one
      <4>4. /\ SubSeq(s, 1, 1) \in Seq(bodies)
            /\ Len(SubSeq(s, 1, 1)) = IF 1 <= 1 THEN 1 - 1 + 1 ELSE 0
            /\ \A j \in 1..1 - 1 + 1 : SubSeq(s, 1, 1)[j] = s[1 + j - 1]
        BY <4>2, <4>3, SubSeqProperties
      <4>5. Len(SubSeq(s, 1, 1)) = 1 /\ SubSeq(s, 1, 1)[1] = s[1]
        <5>1. 1 <= 1 /\ 1 + 1 - 1 = 1
          OBVIOUS
        <5> QED BY <4>3, <4>4, <5>1
      <4>6. SubSeq(s, 1, 1) = one
        BY <4>1, <4>3, <4>4, <4>5, SeqEqual
      <4> QED BY <4>6 DEF s, one
    <3> QED BY <2>2, <2>4, <3>1, <3>2 DEF Bytes
  <2> QED BY <2>3, <2>4
<1>2. ProfilesInv => OneToastPerScript
  BY <1>1 DEF OneToastPerScript
<1> QED BY <1>2, ProfilesInvariant, PTL

===============================================================================
