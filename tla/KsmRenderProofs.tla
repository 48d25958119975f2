---------------------------- MODULE KsmRenderProofs ----------------------------
(***************************************************************************)
(* What KsmRender's runs check on some thirty ConfigMaps, for every        *)
(* ConfigMap, list of arguments and image tag: the arguments follow the    *)
(* scenario, the label is the tag, and the pods restart when the data      *)
(* change and only then.                                                   *)
(*                                                                         *)
(* The state machine needs one invariant, that the Deployment is rendered  *)
(* from the inputs last seen.  The rest is about the operators: where the  *)
(* last colon of a reference is, which flags go in front of the arguments, *)
(* and how the serialised ConfigMap is read back line by line.             *)
(***************************************************************************)
EXTENDS KsmRender, SequenceTheorems, FiniteSetTheorems, TLAPS

-------------------------------------------------------------------------------
(* The invariant                                                           *)

(* Nothing of the Deployment is left from an earlier rendering: it is what *)
(* its last inputs make (controller.go:315-441).                           *)
RenderInv ==
  /\ workload \in Workloads /\ config \in Configs
  /\ seen # <<>> =>
       /\ seen[1] \in Workloads /\ seen[2] \in Configs
       /\ deployment = Rendered(seen[1], seen[2])

LEMMA RenderInvariant == Spec => []RenderInv
<1>1. Init => RenderInv
  BY DEF Init, RenderInv
<1>2. RenderInv /\ [Next]_vars => RenderInv'
  <2> SUFFICES ASSUME RenderInv, [Next]_vars PROVE RenderInv'
    OBVIOUS
  <2>1. CASE Render
    BY <2>1 DEF Render, RenderInv
  <2>2. CASE Change
    BY <2>2 DEF Change, RenderInv
  <2>3. CASE UNCHANGED vars
    BY <2>3 DEF vars, RenderInv
  <2> QED BY <2>1, <2>2, <2>3 DEF Next
<1> QED BY <1>1, <1>2, PTL DEF Spec

-------------------------------------------------------------------------------
(* Sequences                                                               *)

(* A concatenation comes apart where it was put together.                  *)
LEMMA FrontAndBack ==
  ASSUME NEW S, NEW s \in Seq(S), NEW t \in Seq(S)
  PROVE  /\ SubSeq(s \o t, 1, Len(s)) = s
         /\ SubSeq(s \o t, Len(s) + 1, Len(s \o t)) = t
<1> DEFINE st == s \o t
<1>1. /\ Len(s) \in Nat /\ Len(t) \in Nat
      /\ st \in Seq(S) /\ Len(st) = Len(s) + Len(t)
      /\ \A i \in 1..Len(s) + Len(t) :
           st[i] = IF i <= Len(s) THEN s[i] ELSE t[i - Len(s)]
  BY ConcatProperties, LenProperties
<1>2. \A i \in 1..Len(st) : st[i] \in S
  BY <1>1, ElementOfSeq
<1> HIDE DEF st
<1>3. SubSeq(st, 1, Len(s)) = s
  <2> DEFINE front == SubSeq(st, 1, Len(s))
  <2>1. /\ front \in Seq(S) /\ Len(front) = Len(s)
        /\ \A i \in 1..Len(s) : front[i] = st[i]
    BY <1>1, <1>2, SubSeqProperties
  <2>2. \A i \in 1..Len(front) : front[i] = s[i]
    BY <1>1, <2>1
  <2> HIDE DEF front
  <2>3. front = s
    BY <2>1, <2>2, SeqEqual
  <2> QED BY <2>3 DEF front
<1>4. SubSeq(st, Len(s) + 1, Len(st)) = t
  <2> DEFINE back == SubSeq(st, Len(s) + 1, Len(st))
  <2>1. /\ back \in Seq(S) /\ Len(back) = Len(t)
        /\ \A i \in 1..Len(t) : back[i] = st[Len(s) + i]
    BY <1>1, <1>2, SubSeqProperties
  <2>2. \A i \in 1..Len(back) : back[i] = t[i]
    BY <1>1, <2>1
  <2> HIDE DEF back
  <2>3. back = t
    BY <2>1, <2>2, SeqEqual
  <2> QED BY <2>3 DEF back
<1> QED BY <1>3, <1>4 DEF st

(* Sequences of one and of two elements.                                   *)
LEMMA ShortSequences ==
  ASSUME NEW S, NEW a \in S, NEW b \in S
  PROVE  /\ <<a>> \in Seq(S) /\ Len(<<a>>) = 1
         /\ <<a, b>> \in Seq(S) /\ Len(<<a, b>>) = 2
         /\ <<a>> \o <<b>> = <<a, b>>
<1>1. <<a>> \in Seq(S) /\ Len(<<a>>) = 1
  OBVIOUS
<1>2. <<a, b>> \in Seq(S) /\ Len(<<a, b>>) = 2
  OBVIOUS
<1>3. <<b>> \in Seq(S) /\ Len(<<b>>) = 1
  OBVIOUS
<1>4. /\ <<a>> \o <<b>> \in Seq(S) /\ Len(<<a>> \o <<b>>) = 2
      /\ (<<a>> \o <<b>>)[1] = a /\ (<<a>> \o <<b>>)[2] = b
  BY <1>1, <1>3, ConcatProperties
<1>5. \A i \in 1..2 : (<<a>> \o <<b>>)[i] = <<a, b>>[i]
  BY <1>4
<1> QED BY <1>1, <1>2, <1>4, <1>5, SeqEqual

LEMMA InFrontOf ==
  ASSUME NEW S, NEW a \in S, NEW b \in S, NEW s \in Seq(S)
  PROVE  <<a, b>> \o s = <<a>> \o (<<b>> \o s)
<1> DEFINE one == <<a>>
           two == <<b>>
<1>1. one \in Seq(S) /\ two \in Seq(S)
  BY ShortSequences
<1>2. one \o two = <<a, b>>
  BY ShortSequences
<1> HIDE DEF one, two
<1>3. (one \o two) \o s = one \o (two \o s)
  BY <1>1, ConcatAssociative
<1> QED BY <1>2, <1>3 DEF one, two

(* They hold the set of their elements, each once.                         *)
Enumerates(s, set) ==
  {s[i] : i \in DOMAIN s} = set /\ Len(s) = Cardinality(set)

LEMMA ShortEnumerations ==
  ASSUME NEW a, NEW b, a # b
  PROVE  /\ Enumerates(<<>>, {}) /\ Enumerates(<<a>>, {a})
         /\ Enumerates(<<a, b>>, {a, b})
<1>1. Enumerates(<<>>, {})
  BY EmptySeq, FS_EmptySet DEF Enumerates
<1>2. Enumerates(<<a>>, {a})
  <2> DEFINE s == <<a>>
  <2>1. DOMAIN s = {1} /\ Len(s) = 1 /\ s[1] = a
    OBVIOUS
  <2>2. Cardinality({a}) = 1
    BY FS_Singleton
  <2> HIDE DEF s
  <2>3. {s[i] : i \in DOMAIN s} = {a}
    BY <2>1
  <2> QED BY <2>1, <2>2, <2>3 DEF Enumerates, s
<1>3. Enumerates(<<a, b>>, {a, b})
  <2> DEFINE s == <<a, b>>
  <2>1. DOMAIN s = {1, 2} /\ Len(s) = 2 /\ s[1] = a /\ s[2] = b
    OBVIOUS
  <2>2. Cardinality({a} \cup {b}) = Cardinality({a}) + 1
    BY FS_Singleton, FS_AddElement
  <2>3. {a} \cup {b} = {a, b} /\ Cardinality({a}) = 1
    BY FS_Singleton
  <2> HIDE DEF s
  <2>4. {s[i] : i \in DOMAIN s} = {a, b}
    BY <2>1
  <2> QED BY <2>1, <2>2, <2>3, <2>4 DEF Enumerates, s
<1> QED BY <1>1, <1>2, <1>3

-------------------------------------------------------------------------------
(* Arguments                                                               *)

Holds(data, key) == data # NoConfig /\ key \in DOMAIN data

(* Arguments are strings; that a literal is one is said here, no prover    *)
(* knows it.                                                               *)
Arguments == STRING \cup {Std, CRSOnly, CRSFile}

LEMMA FlagsAreArguments ==
  /\ Std \in Arguments /\ CRSOnly \in Arguments /\ CRSFile \in Arguments
  /\ <<>> \in Seq(Arguments) /\ Std # CRSFile /\ CRSOnly # CRSFile
<1>1. <<>> \in Seq(Arguments)
  BY EmptySeq
<1>2. Std \in Arguments /\ CRSOnly \in Arguments /\ CRSFile \in Arguments
  BY DEF Arguments
<1>3. Std # CRSFile /\ CRSOnly # CRSFile
  BY DEF Std, CRSOnly, CRSFile
<1> QED BY <1>1, <1>2, <1>3

(* The flags as one sequence, by what the ConfigMap holds.                 *)
LEMMA FlagsByCase ==
  ASSUME NEW data
  PROVE  ConfigFlags(data) =
           IF Holds(data, StdKey)
           THEN IF Holds(data, CRSKey) THEN <<Std, CRSFile>> ELSE <<Std>>
           ELSE IF Holds(data, CRSKey) THEN <<CRSOnly, CRSFile>> ELSE <<>>
<1> DEFINE flag(cond, name) == IF cond THEN <<name>> ELSE <<>>
           std == flag(Holds(data, StdKey), Std)
           only == flag(Holds(data, CRSKey) /\ ~Holds(data, StdKey), CRSOnly)
           crs == flag(Holds(data, CRSKey), CRSFile)
<1>1. ConfigFlags(data) = std \o only \o crs
  BY DEF ConfigFlags, Holds, Std, CRSOnly, CRSFile
<1>2. /\ <<Std>> \in Seq(Arguments) /\ <<CRSOnly>> \in Seq(Arguments)
      /\ <<CRSFile>> \in Seq(Arguments) /\ <<>> \in Seq(Arguments)
  BY FlagsAreArguments, ShortSequences
<1>3. /\ <<>> \o <<CRSOnly>> = <<CRSOnly>> /\ <<Std>> \o <<>> = <<Std>>
      /\ <<>> \o <<>> = <<>>
  BY <1>2, ConcatEmptySeq
<1>4. /\ <<CRSOnly>> \o <<CRSFile>> = <<CRSOnly, CRSFile>>
      /\ <<Std>> \o <<CRSFile>> = <<Std, CRSFile>>
  BY FlagsAreArguments, ShortSequences
<1> QED BY <1>1, <1>3, <1>4

(* Every derived flag is put in front of what is there already, so the     *)
(* user's own come last (controller.go:326-340).                           *)
LEMMA ArgsAreFlagsThenOwn ==
  ASSUME NEW data, NEW args \in Seq(Arguments)
  PROVE  Args(args, data) = ConfigFlags(data) \o args
<1>1. <<CRSOnly, CRSFile>> \o args = <<CRSOnly>> \o (<<CRSFile>> \o args)
  BY FlagsAreArguments, InFrontOf
<1>2. <<Std, CRSFile>> \o args = <<Std>> \o (<<CRSFile>> \o args)
  BY FlagsAreArguments, InFrontOf
<1>3. <<>> \o args = args
  BY ConcatEmptySeq
<1>4. Args(args, data) =
        IF Holds(data, StdKey)
        THEN <<Std>> \o IF Holds(data, CRSKey) THEN <<CRSFile>> \o args ELSE args
        ELSE IF Holds(data, CRSKey) THEN <<CRSOnly>> \o (<<CRSFile>> \o args)
             ELSE args
  BY DEF Args, Holds
<1> QED BY <1>1, <1>2, <1>3, <1>4, FlagsByCase

(* The flags are those of the scenario, each once.                         *)
LEMMA FlagsOfScenario ==
  ASSUME NEW data
  PROVE  ConfigFlags(data) \in Seq(Arguments) /\ Enumerates(ConfigFlags(data), Scenario(data))
<1> DEFINE keys == IF data = NoConfig THEN {} ELSE DOMAIN data \cap {StdKey, CRSKey}
<1>1. ConfigFlags(data) \in Seq(Arguments)
  BY FlagsByCase, FlagsAreArguments, ShortSequences
<1>2. /\ Enumerates(<<>>, {}) /\ Enumerates(<<Std>>, {Std})
      /\ Enumerates(<<Std, CRSFile>>, {Std, CRSFile})
      /\ Enumerates(<<CRSOnly, CRSFile>>, {CRSOnly, CRSFile})
  BY FlagsAreArguments, ShortEnumerations
<1>3. /\ StdKey \in keys <=> Holds(data, StdKey)
      /\ CRSKey \in keys <=> Holds(data, CRSKey)
      /\ keys \subseteq {StdKey, CRSKey} /\ StdKey # CRSKey
  BY DEF Holds, StdKey, CRSKey
<1>4. Scenario(data) = CASE keys = {}               -> {}
                         [] keys = {CRSKey}         -> {CRSFile, CRSOnly}
                         [] keys = {StdKey}         -> {Std}
                         [] keys = {StdKey, CRSKey} -> {CRSFile, Std}
  BY DEF Scenario
<1> HIDE DEF keys
<1>5. CASE ~Holds(data, StdKey) /\ ~Holds(data, CRSKey)
  <2>1. keys = {}
    BY <1>3, <1>5
  <2> QED BY <1>1, <1>2, <1>4, <1>5, <2>1, FlagsByCase
<1>6. CASE ~Holds(data, StdKey) /\ Holds(data, CRSKey)
  <2>1. keys = {CRSKey}
    BY <1>3, <1>6
  <2>2. Scenario(data) = {CRSOnly, CRSFile}
    BY <1>3, <1>4, <2>1
  <2> QED BY <1>1, <1>2, <1>6, <2>2, FlagsByCase
<1>7. CASE Holds(data, StdKey) /\ ~Holds(data, CRSKey)
  <2>1. keys = {StdKey}
    BY <1>3, <1>7
  <2>2. Scenario(data) = {Std}
    BY <1>3, <1>4, <2>1
  <2> QED BY <1>1, <1>2, <1>7, <2>2, FlagsByCase
<1>8. CASE Holds(data, StdKey) /\ Holds(data, CRSKey)
  <2>1. keys = {StdKey, CRSKey}
    BY <1>3, <1>8
  <2>2. Scenario(data) = {Std, CRSFile}
    BY <1>3, <1>4, <2>1
  <2> QED BY <1>1, <1>2, <1>8, <2>2, FlagsByCase
<1> QED BY <1>5, <1>6, <1>7, <1>8

(* The container gets the flags of its ConfigMap's scenario and none from  *)
(* an earlier one, then the user's own in their order                      *)
(* (controller.go:325-340).                                                *)
THEOREM ArgumentsFollow == Spec => []ArgsFollowScenario
<1>1. ASSUME RenderInv, seen # <<>> PROVE ArgsFollowScenario
  <2> DEFINE own == seen[1].args
             flags == ConfigFlags(seen[2])
  <2>1. own \in Seq(Arguments) /\ flags \in Seq(Arguments)
    <3>1. own \in Seq(STRING)
      BY <1>1, WorkloadsAssumption DEF RenderInv
    <3> QED BY <3>1, SeqMonotonic, FlagsOfScenario DEF Arguments
  <2>2. deployment.args = flags \o own
    <3>1. deployment.args = Args(own, seen[2])
      BY <1>1 DEF RenderInv, Rendered
    <3> QED BY <2>1, <3>1, ArgsAreFlagsThenOwn
  <2>3. /\ Len(own) \in Nat /\ Len(flags) \in Nat
        /\ Len(flags \o own) = Len(flags) + Len(own)
    BY <2>1, ConcatProperties, LenProperties
  <2>4. Len(deployment.args) - Len(own) = Len(flags)
    BY <2>2, <2>3
  <2>5. /\ SubSeq(deployment.args, 1, Len(flags)) = flags
        /\ SubSeq(deployment.args, Len(flags) + 1, Len(deployment.args)) = own
    <3> HIDE DEF own, flags
    <3> QED BY <2>1, <2>2, FrontAndBack
  <2> HIDE DEF own, flags
  <2> QED BY <2>4, <2>5, FlagsOfScenario DEF ArgsFollowScenario, Enumerates, own, flags
<1>2. ASSUME seen = <<>> PROVE ArgsFollowScenario
  BY <1>2 DEF ArgsFollowScenario
<1>3. RenderInv => ArgsFollowScenario
  BY <1>1, <1>2
<1> QED BY <1>3, RenderInvariant, PTL

-------------------------------------------------------------------------------
(* The version label                                                       *)

(* splitLast cuts at the last separator, so the label is what follows it   *)
(* (controller.go:556-589).                                                *)
LEMMA AfterLastColon ==
  ASSUME NEW S, NEW s \in Seq(S), NEW tag \in S, ":" \in S, tag # ":"
  PROVE  Version(s \o <<":", tag>>) = <<tag>>
<1> DEFINE end == <<":", tag>>
           image == s \o end
           n == Len(s)
           at == {i \in DOMAIN image : image[i] = ":"}
<1>1. /\ end \in Seq(S) /\ Len(end) = 2 /\ end[1] = ":" /\ end[2] = tag
  OBVIOUS
<1> HIDE DEF end
<1>2. /\ n \in Nat /\ image \in Seq(S) /\ Len(image) = n + 2
      /\ image[n + 1] = ":" /\ image[n + 2] = tag
  <2>1. /\ image \in Seq(S) /\ Len(image) = n + Len(end)
        /\ \A i \in 1..n + Len(end) :
             image[i] = IF i <= n THEN s[i] ELSE end[i - n]
    BY <1>1, ConcatProperties
  <2>2. n \in Nat
    BY LenProperties
  <2> HIDE DEF image, n
  <2> QED BY <1>1, <2>1, <2>2
<1>3. DOMAIN image = 1..n + 2
  BY <1>2, LenProperties
<1> HIDE DEF image, n
<1>4. n + 1 \in at /\ \A i \in at : i \in Nat /\ n + 1 >= i
  BY <1>2, <1>3
<1> HIDE DEF at
<1>5. Max(at) = n + 1 /\ at # {}
  BY <1>2, <1>4 DEF Max
<1>6. SubSeq(image, n + 2, n + 2) = <<tag>>
  <2> DEFINE last == SubSeq(image, n + 2, n + 2)
  <2>1. last \in Seq(S) /\ Len(last) = 1 /\ last[1] = tag
    BY <1>2, SubSeqProperties
  <2> HIDE DEF last
  <2>2. last = <<tag>>
    BY <2>1, SeqEqual
  <2> QED BY <2>2 DEF last
<1>7. SplitLast(image, ":") = <<SubSeq(image, 1, n), <<tag>>>>
  <2>1. SplitLast(image, ":") =
          <<SubSeq(image, 1, Max(at) - 1), SubSeq(image, Max(at) + 1, Len(image))>>
    BY <1>5 DEF SplitLast, at
  <2>2. Max(at) - 1 = n /\ Max(at) + 1 = n + 2
    BY <1>2, <1>5
  <2> QED BY <1>2, <1>6, <2>1, <2>2
<1>8. Version(image) = <<tag>>
  BY <1>7 DEF Version
<1> QED BY <1>8 DEF image, end

LEMMA NoColon ==
  ASSUME NEW image, \A i \in DOMAIN image : image[i] # ":"
  PROVE  Version(image) = <<"unknown">>
<1>1. SplitLast(image, ":") = <<image>>
  BY DEF SplitLast
<1> QED BY <1>1 DEF Version

(* The tokens of an image reference.                                       *)
Tokens == Tags \cup {"registry", ":", "5000", "/", "ksm"}

LEMMA ImageOfTag ==
  ASSUME NEW ref \in ImageRefs, ref.tag # "", ~ref.digest
  PROVE  Version(Image(ref)) = <<ref.tag>>
<1>1. ref.tag \in Tokens /\ ref.tag # ":" /\ ":" \in Tokens
  BY TagsAssumption DEF ImageRefs, Tokens
<1> DEFINE port == IF ref.port THEN <<":", "5000">> ELSE <<>>
           name == <<"registry">> \o port \o <<"/", "ksm">>
<1>2. name \in Seq(Tokens)
  <2>1. /\ "registry" \in Tokens /\ "5000" \in Tokens /\ "/" \in Tokens
        /\ "ksm" \in Tokens
    BY DEF Tokens
  <2>2. /\ <<"registry">> \in Seq(Tokens) /\ <<":", "5000">> \in Seq(Tokens)
        /\ <<"/", "ksm">> \in Seq(Tokens) /\ <<>> \in Seq(Tokens)
    BY <1>1, <2>1, ShortSequences, EmptySeq
  <2>3. port \in Seq(Tokens)
    BY <2>2
  <2> HIDE DEF port
  <2>4. <<"registry">> \o port \in Seq(Tokens)
    BY <2>2, <2>3, ConcatProperties
  <2> QED BY <2>2, <2>4, ConcatProperties
<1>3. Image(ref) = name \o <<":", ref.tag>> \o <<>>
  BY DEF Image
<1> HIDE DEF name
<1>4. name \o <<":", ref.tag>> \in Seq(Tokens)
  BY <1>1, <1>2, ShortSequences, ConcatProperties
<1>5. Image(ref) = name \o <<":", ref.tag>>
  BY <1>3, <1>4, ConcatEmptySeq
<1> QED BY <1>1, <1>2, <1>5, AfterLastColon

LEMMA NameWithoutColon ==
  Version(<<"registry">> \o <<"/", "ksm">>) = <<"unknown">>
<1> DEFINE host == <<"registry">>
           path == <<"/", "ksm">>
           name == host \o path
<1>1. host \in Seq(Tokens) /\ path \in Seq(Tokens)
  BY ShortSequences DEF Tokens
<1>2. /\ Len(host) = 1 /\ Len(path) = 2
      /\ host[1] # ":" /\ path[1] # ":" /\ path[2] # ":"
  OBVIOUS
<1> HIDE DEF host, path
<1>3. /\ name \in Seq(Tokens) /\ Len(name) = Len(host) + Len(path)
      /\ \A i \in 1..Len(host) + Len(path) :
           name[i] = IF i <= Len(host) THEN host[i] ELSE path[i - Len(host)]
  BY <1>1, ConcatProperties
<1> HIDE DEF name
<1>4. ASSUME NEW i \in DOMAIN name PROVE name[i] # ":"
  <2>1. i \in 1..3
    BY <1>2, <1>3, <1>4, LenProperties
  <2>2. name[i] = IF i <= 1 THEN host[i] ELSE path[i - 1]
    BY <1>2, <1>3, <2>1
  <2>3. i = 1 \/ i - 1 = 1 \/ i - 1 = 2
    BY <2>1
  <2> QED BY <1>2, <2>1, <2>2, <2>3
<1>5. Version(name) = <<"unknown">>
  BY <1>4, NoColon
<1> QED BY <1>5 DEF name, host, path

LEMMA ImageWithoutColon ==
  ASSUME NEW ref \in ImageRefs, ref.tag = "", ~ref.digest, ~ref.port
  PROVE  Version(Image(ref)) = <<"unknown">>
<1> DEFINE host == <<"registry">>
           path == <<"/", "ksm">>
<1>1. Image(ref) = host \o <<>> \o path \o <<>> \o <<>>
  BY DEF Image
<1>2. host \in Seq(Tokens) /\ path \in Seq(Tokens)
  BY ShortSequences DEF Tokens
<1> HIDE DEF host, path
<1>3. host \o path \in Seq(Tokens)
  BY <1>2, ConcatProperties
<1>4. Image(ref) = host \o path
  BY <1>1, <1>2, <1>3, ConcatEmptySeq
<1> QED BY <1>4, NameWithoutColon DEF host, path

(* The version label is the tag that ends the reference, and "unknown"     *)
(* where there is no colon, for every tag (controller.go:556-589).         *)
THEOREM LabelIsTag == Spec => []VersionOfTaggedImage
<1>1. ASSUME RenderInv, seen # <<>> PROVE VersionOfTaggedImage
  <2>1. /\ seen[1].ref \in ImageRefs
        /\ deployment.version = Version(Image(seen[1].ref))
    BY <1>1, WorkloadsAssumption DEF RenderInv, Rendered
  <2> QED BY <2>1, ImageOfTag, ImageWithoutColon DEF VersionOfTaggedImage
<1>2. ASSUME seen = <<>> PROVE VersionOfTaggedImage
  BY <1>2 DEF VersionOfTaggedImage
<1>3. RenderInv => VersionOfTaggedImage
  BY <1>1, <1>2
<1> QED BY <1>3, RenderInvariant, PTL

-------------------------------------------------------------------------------
(* Restarts                                                                *)

(* Nothing but the template of KsmController goes into the pods.           *)
LEMMA TemplateDecides ==
  ASSUME NEW w \in Workloads, NEW spec, NEW a, NEW b,
         Template(spec, a) = Template(spec, b)
  PROVE  Rendered(w, a) = Rendered(w, b)
<1>1. ConfigFlags(a) = ConfigFlags(b) /\ HashOf(a) = HashOf(b)
  BY DEF Template
<1>2. (a # NoConfig) = (b # NoConfig)
  <2>1. Template(spec, a).mounted = Template(spec, b).mounted
    OBVIOUS
  <2> QED BY <2>1, Zenon DEF Template
<1>3. w.args \in Seq(Arguments)
  BY WorkloadsAssumption, SeqMonotonic DEF Arguments
<1>4. Args(w.args, a) = Args(w.args, b)
  BY <1>1, <1>3, ArgsAreFlagsThenOwn
<1> QED BY <1>1, <1>2, <1>4, Zenon DEF Rendered

(* A pass that finds the spec's workload and the ConfigMap's template as   *)
(* they were leaves the pods alone (controller.go:314-441).                *)
THEOREM PodsFollowTemplate == Spec => PodsDependOnTemplate
<1> DEFINE template(s) == Template([namespace |-> "", workload |-> s[1]], s[2])
<1>1. ASSUME RenderInv, RenderInv', Next, seen # <<>>,
             template(seen') = template(seen)
      PROVE  deployment' = deployment
  <2>1. CASE Change
    BY <2>1 DEF Change
  <2>2. CASE Render
    <3>1. seen'[1] = seen[1]
      BY <1>1 DEF Template
    <3>2. seen[1] \in Workloads
      BY <1>1 DEF RenderInv
    <3>3. seen' # <<>>
      BY <2>2 DEF Render
    <3> DEFINE spec == [namespace |-> "", workload |-> seen[1]]
    <3>4. Template(spec, seen'[2]) = Template(spec, seen[2])
      BY <1>1, <3>1
    <3> HIDE DEF spec
    <3>5. Rendered(seen[1], seen'[2]) = Rendered(seen[1], seen[2])
      BY <3>2, <3>4, TemplateDecides
    <3> QED BY <1>1, <3>1, <3>3, <3>5 DEF RenderInv
  <2> QED BY <1>1, <2>1, <2>2 DEF Next
<1>2. RenderInv /\ RenderInv' /\ [Next]_vars
        => [ LET t(s) == Template([namespace |-> "", workload |-> s[1]], s[2])
             IN  seen # <<>> /\ t(seen') = t(seen)
                 => deployment' = deployment ]_<<seen, deployment>>
  BY <1>1 DEF vars
<1> QED BY <1>2, RenderInvariant, PTL DEF Spec, PodsDependOnTemplate

-------------------------------------------------------------------------------
(* Reading the serialised ConfigMap back                                   *)

AllKeys == {SortedKeys[j] : j \in DOMAIN SortedKeys}
Bytes == STRING \cup AllKeys \cup {"=", "\n"}

(* The sequence s is the line of a key and its value, followed by rest.    *)
BeginsWithLine(s, key, value, rest) ==
  /\ Len(s) = Len(value) + 3 + Len(rest)
  /\ s[1] = key /\ s[2] = "=" /\ s[Len(value) + 3] = "\n"
  /\ \A i \in 1..Len(value) : s[2 + i] = value[i]
  /\ \A i \in 1..Len(rest) : s[Len(value) + 3 + i] = rest[i]

(* What follows a line: the line of one of the keys, or nothing.           *)
NextLine(s, keys) ==
  /\ s \in Seq(Bytes)
  /\ Len(s) # 0 => Len(s) >= 2 /\ s[1] \in keys /\ s[2] = "="

(* A plain value does not reach beyond the newline that ends another value *)
(* in the same place.                                                      *)
LEMMA PlainValueEnds ==
  ASSUME NEW s, NEW key, NEW v \in Seq(Bytes), NEW w \in Seq(Bytes),
         NEW r, NEW q, NextLine(r, AllKeys), NextLine(q, AllKeys),
         ~EmbedsLine(w),
         BeginsWithLine(s, key, v, r), BeginsWithLine(s, key, w, q)
  PROVE  ~(Len(v) < Len(w))
<1> SUFFICES ASSUME Len(v) < Len(w) PROVE FALSE
  OBVIOUS
<1> DEFINE n == Len(v) + 1
<1>1. /\ Len(v) \in Nat /\ Len(w) \in Nat /\ Len(r) \in Nat /\ Len(q) \in Nat
  BY LenProperties DEF NextLine
<1>2. n \in 1..Len(w) /\ w[n] = "\n"
  <2>1. n \in 1..Len(w)
    BY <1>1
  <2>2. s[2 + n] = "\n" /\ s[2 + n] = w[n]
    BY <1>1, <2>1 DEF BeginsWithLine
  <2> QED BY <2>1, <2>2
<1>3. Len(r) >= 2 /\ r[1] \in AllKeys /\ r[2] = "="
  BY <1>1 DEF NextLine, BeginsWithLine
<1>4. s[3 + n] \in AllKeys /\ s[4 + n] = "="
  <2>1. s[Len(v) + 3 + 1] = r[1] /\ s[Len(v) + 3 + 2] = r[2]
    BY <1>1, <1>3 DEF BeginsWithLine
  <2> QED BY <1>1, <1>3, <2>1
<1>5. "\n" \notin AllKeys /\ "\n" # "="
  BY DEF AllKeys, SortedKeys, StdKey, CRSKey, OtherKey
<1>6. CASE n = Len(w)
  <2>1. s[3 + n] = "\n"
    BY <1>1, <1>6 DEF BeginsWithLine
  <2> QED BY <1>4, <1>5, <2>1
<1>7. CASE n = Len(w) - 1
  <2>1. s[4 + n] = "\n"
    BY <1>1, <1>7 DEF BeginsWithLine
  <2> QED BY <1>4, <1>5, <2>1
<1>8. CASE n <= Len(w) - 2
  <2>1. n + 1 \in 1..Len(w) /\ n + 2 \in 1..Len(w) /\ n \in 1..(Len(w) - 2)
    BY <1>1, <1>8
  <2>2. s[2 + (n + 1)] = w[n + 1] /\ s[2 + (n + 2)] = w[n + 2]
    BY <2>1 DEF BeginsWithLine
  <2>3. w[n + 1] \in AllKeys /\ w[n + 2] = "="
    BY <1>1, <1>4, <2>2
  <2>4. PICK j \in DOMAIN SortedKeys : w[n + 1] = SortedKeys[j]
    BY <2>3 DEF AllKeys
  <2> HIDE DEF n
  <2>5. EmbedsLine(w)
    BY <1>2, <2>1, <2>3, <2>4 DEF EmbedsLine
  <2> QED BY <2>5
<1> QED BY <1>1, <1>2, <1>6, <1>7, <1>8

(* So a line is read back in one way only.                                 *)
LEMMA LineReadBack ==
  ASSUME NEW s, NEW key, NEW v \in Seq(Bytes), NEW w \in Seq(Bytes),
         NEW r, NEW q, NextLine(r, AllKeys), NextLine(q, AllKeys),
         ~EmbedsLine(v), ~EmbedsLine(w),
         BeginsWithLine(s, key, v, r), BeginsWithLine(s, key, w, q)
  PROVE  v = w /\ r = q
<1>1. /\ Len(v) \in Nat /\ Len(w) \in Nat /\ Len(r) \in Nat /\ Len(q) \in Nat
  BY LenProperties DEF NextLine
<1>2. ~(Len(v) < Len(w)) /\ ~(Len(w) < Len(v))
  BY PlainValueEnds
<1>3. Len(v) = Len(w)
  BY <1>1, <1>2
<1>4. \A i \in 1..Len(v) : v[i] = w[i]
  BY <1>3 DEF BeginsWithLine
<1>5. Len(r) = Len(q)
  BY <1>1, <1>3 DEF BeginsWithLine
<1>6. \A i \in 1..Len(r) : r[i] = q[i]
  BY <1>3, <1>5 DEF BeginsWithLine
<1>7. v = w
  BY <1>3, <1>4, SeqEqual
<1>8. r = q
  BY <1>5, <1>6, SeqEqual DEF NextLine
<1> QED BY <1>7, <1>8

(* The line computeConfigMapHash writes for a key, none without the key.   *)
LineOf(data, key) ==
  IF key \in DOMAIN data THEN <<key, "=">> \o data[key] \o <<"\n">> ELSE <<>>

LEMMA LineWritten ==
  ASSUME NEW key \in AllKeys, NEW value \in Seq(Bytes), NEW rest \in Seq(Bytes)
  PROVE  LET s == <<key, "=">> \o value \o <<"\n">> \o rest
         IN  s \in Seq(Bytes) /\ BeginsWithLine(s, key, value, rest)
<1> DEFINE front == <<key, "=">>
           end == <<"\n">>
           open == front \o value
           line == open \o end
           s == line \o rest
<1>1. key \in Bytes /\ "=" \in Bytes /\ "\n" \in Bytes
  BY DEF Bytes
<1>2. /\ front \in Seq(Bytes) /\ Len(front) = 2
      /\ end \in Seq(Bytes) /\ Len(end) = 1
  BY <1>1, ShortSequences
<1>3. front[1] = key /\ front[2] = "=" /\ end[1] = "\n"
  OBVIOUS
<1>4. Len(value) \in Nat /\ Len(rest) \in Nat
  BY LenProperties
<1> HIDE DEF front, end
<1>5. /\ open \in Seq(Bytes) /\ Len(open) = 2 + Len(value)
      /\ \A i \in 1..2 + Len(value) :
           open[i] = IF i <= 2 THEN front[i] ELSE value[i - 2]
  <2>1. /\ open \in Seq(Bytes) /\ Len(open) = Len(front) + Len(value)
        /\ \A i \in 1..Len(front) + Len(value) :
             open[i] = IF i <= Len(front) THEN front[i] ELSE value[i - Len(front)]
    BY <1>2, ConcatProperties
  <2> HIDE DEF open
  <2> QED BY <1>2, <2>1
<1> HIDE DEF open
<1>6. /\ line \in Seq(Bytes) /\ Len(line) = 3 + Len(value)
      /\ \A i \in 1..3 + Len(value) :
           line[i] = IF i <= 2 + Len(value) THEN open[i]
                     ELSE end[i - (2 + Len(value))]
  <2>1. /\ line \in Seq(Bytes) /\ Len(line) = Len(open) + Len(end)
        /\ \A i \in 1..Len(open) + Len(end) :
             line[i] = IF i <= Len(open) THEN open[i] ELSE end[i - Len(open)]
    BY <1>2, <1>5, ConcatProperties
  <2> HIDE DEF line
  <2>2. Len(open) + Len(end) = 3 + Len(value)
    BY <1>2, <1>4, <1>5
  <2> QED BY <1>5, <2>1, <2>2
<1> HIDE DEF line
<1>7. /\ s \in Seq(Bytes) /\ Len(s) = Len(line) + Len(rest)
      /\ \A i \in 1..Len(line) + Len(rest) :
           s[i] = IF i <= Len(line) THEN line[i] ELSE rest[i - Len(line)]
  <2>1. line \in Seq(Bytes)
    BY <1>6
  <2> QED BY <2>1, ConcatProperties
<1> HIDE DEF s
<1>8. Len(s) = Len(value) + 3 + Len(rest)
  BY <1>4, <1>6, <1>7
<1>9. s[1] = key /\ s[2] = "=" /\ s[Len(value) + 3] = "\n"
  <2>1. s[1] = front[1] /\ s[2] = front[2]
    BY <1>4, <1>5, <1>6, <1>7
  <2>2. s[Len(value) + 3] = end[1]
    <3>1. s[Len(value) + 3] = line[Len(value) + 3]
      BY <1>4, <1>6, <1>7
    <3>2. line[Len(value) + 3] = end[Len(value) + 3 - (2 + Len(value))]
      BY <1>4, <1>6
    <3>3. Len(value) + 3 - (2 + Len(value)) = 1
      BY <1>4
    <3> QED BY <3>1, <3>2, <3>3
  <2> QED BY <1>3, <2>1, <2>2
<1>10. ASSUME NEW i \in 1..Len(value) PROVE s[2 + i] = value[i]
  <2>1. 2 + i \in 1..2 + Len(value) /\ ~(2 + i <= 2) /\ (2 + i) - 2 = i
    BY <1>4, <1>10
  <2>2. open[2 + i] = value[i]
    BY <1>5, <2>1
  <2> QED BY <1>4, <1>6, <1>7, <1>10, <2>2
<1>11. ASSUME NEW i \in 1..Len(rest) PROVE s[Len(value) + 3 + i] = rest[i]
  <2>1. /\ Len(value) + 3 + i \in 1..Len(line) + Len(rest)
        /\ ~(Len(value) + 3 + i <= Len(line))
        /\ Len(value) + 3 + i - Len(line) = i
    BY <1>4, <1>6, <1>11
  <2> QED BY <1>7, <2>1
<1>12. s \in Seq(Bytes) /\ BeginsWithLine(s, key, value, rest)
  BY <1>7, <1>8, <1>9, <1>10, <1>11 DEF BeginsWithLine
<1> QED BY <1>12 DEF s, line, open, front, end

LEMMA LinesCompose ==
  ASSUME NEW data, data \in [DOMAIN data -> Seq(Bytes)],
         NEW key \in AllKeys, NEW keys, NEW rest, NextLine(rest, keys)
  PROVE  /\ NextLine(LineOf(data, key) \o rest, keys \cup {key})
         /\ key \in DOMAIN data =>
              BeginsWithLine(LineOf(data, key) \o rest, key, data[key], rest)
         /\ key \notin DOMAIN data => LineOf(data, key) \o rest = rest
<1>1. rest \in Seq(Bytes) /\ Len(rest) \in Nat
  BY LenProperties DEF NextLine
<1>2. CASE key \notin DOMAIN data
  <2>1. LineOf(data, key) \o rest = rest
    BY <1>1, <1>2, ConcatEmptySeq DEF LineOf
  <2> QED BY <1>2, <2>1 DEF NextLine
<1>3. CASE key \in DOMAIN data
  <2> DEFINE s == LineOf(data, key) \o rest
  <2>1. data[key] \in Seq(Bytes) /\ Len(data[key]) \in Nat
    BY <1>3, LenProperties
  <2>2. s = <<key, "=">> \o data[key] \o <<"\n">> \o rest
    BY <1>3 DEF LineOf
  <2>3. s \in Seq(Bytes) /\ BeginsWithLine(s, key, data[key], rest)
    BY <1>1, <2>1, <2>2, LineWritten
  <2> HIDE DEF s
  <2>4. NextLine(s, keys \cup {key})
    BY <1>1, <2>1, <2>3 DEF NextLine, BeginsWithLine
  <2> QED BY <1>3, <2>3, <2>4 DEF s
<1> QED BY <1>2, <1>3

(* A map from keys to sequences, none of which imitates a line.            *)
PlainMap(data) ==
  /\ data \in [DOMAIN data -> Seq(Bytes)]
  /\ \A key \in DOMAIN data : ~EmbedsLine(data[key])

(* The rest after the place where the line of a key may be.                *)
Follows(rest, key) ==
  NextLine(rest, AllKeys) /\ (Len(rest) # 0 => rest[1] # key)

(* A serialisation that goes on with the line of a key, if there is one.   *)
GoesOn(s, data, key, rest) == s = LineOf(data, key) \o rest

(* Two equal serialisations agree on the next key and on what follows it.  *)
LEMMA LinesComeApart ==
  ASSUME NEW a, NEW b,
         PlainMap(a), PlainMap(b),
         NEW key \in AllKeys, NEW r, NEW q, Follows(r, key), Follows(q, key),
         NEW s, GoesOn(s, a, key, r), GoesOn(s, b, key, q)
  PROVE  /\ key \in DOMAIN a <=> key \in DOMAIN b
         /\ key \in DOMAIN a => a[key] = b[key]
         /\ r = q
<1>1. /\ key \in DOMAIN a => BeginsWithLine(s, key, a[key], r)
      /\ key \notin DOMAIN a => s = r
  BY LinesCompose DEF PlainMap, Follows, GoesOn
<1>2. /\ key \in DOMAIN b => BeginsWithLine(s, key, b[key], q)
      /\ key \notin DOMAIN b => s = q
  BY LinesCompose DEF PlainMap, Follows, GoesOn
<1>3. NextLine(r, AllKeys) /\ NextLine(q, AllKeys)
  BY DEF Follows
<1>4. CASE key \in DOMAIN a /\ key \in DOMAIN b
  <2>1. /\ a[key] \in Seq(Bytes) /\ ~EmbedsLine(a[key])
        /\ b[key] \in Seq(Bytes) /\ ~EmbedsLine(b[key])
    BY <1>4 DEF PlainMap
  <2>2. BeginsWithLine(s, key, a[key], r) /\ BeginsWithLine(s, key, b[key], q)
    BY <1>1, <1>2, <1>4
  <2>3. a[key] = b[key] /\ r = q
    BY <1>3, <2>1, <2>2, LineReadBack
  <2> QED BY <1>4, <2>3
<1>5. CASE key \notin DOMAIN a /\ key \notin DOMAIN b
  BY <1>1, <1>2, <1>5
<1>6. CASE key \in DOMAIN a /\ key \notin DOMAIN b
  <2>1. BeginsWithLine(q, key, a[key], r)
    BY <1>1, <1>2, <1>6
  <2>2. Len(a[key]) \in Nat /\ Len(r) \in Nat
    BY <1>6, LenProperties DEF Follows, NextLine, PlainMap
  <2>3. q[1] = key /\ Len(q) # 0
    BY <2>1, <2>2 DEF BeginsWithLine
  <2> QED BY <2>3 DEF Follows
<1>7. CASE key \notin DOMAIN a /\ key \in DOMAIN b
  <2>1. BeginsWithLine(r, key, b[key], q)
    BY <1>1, <1>2, <1>7
  <2>2. Len(b[key]) \in Nat /\ Len(q) \in Nat
    BY <1>7, LenProperties DEF Follows, NextLine, PlainMap
  <2>3. r[1] = key /\ Len(r) # 0
    BY <2>1, <2>2 DEF BeginsWithLine
  <2> QED BY <2>3 DEF Follows
<1> QED BY <1>4, <1>5, <1>6, <1>7

(* The hash is the lines of the three keys in their order.                 *)
LEMMA HashIsLines ==
  ASSUME NEW data, data \in [DOMAIN data -> Seq(Bytes)]
  PROVE  LET third == LineOf(data, OtherKey) \o <<>>
             second == LineOf(data, CRSKey) \o third
         IN  /\ NextLine(third, {OtherKey})
             /\ NextLine(second, {OtherKey, CRSKey})
             /\ ConfigHash(data) = LineOf(data, StdKey) \o second
<1> DEFINE third == LineOf(data, OtherKey) \o <<>>
           second == LineOf(data, CRSKey) \o third
<1>1. StdKey \in AllKeys /\ CRSKey \in AllKeys /\ OtherKey \in AllKeys
  BY DEF AllKeys, SortedKeys
<1>2. <<>> \in Seq(Bytes) /\ NextLine(<<>>, {})
  BY EmptySeq DEF NextLine
<1>3. /\ LineOf(data, StdKey) \in Seq(Bytes) /\ LineOf(data, CRSKey) \in Seq(Bytes)
      /\ LineOf(data, OtherKey) \in Seq(Bytes)
  <2>1. ASSUME NEW key \in AllKeys PROVE LineOf(data, key) \in Seq(Bytes)
    <3>1. CASE key \in DOMAIN data
      <4>1. data[key] \in Seq(Bytes)
        BY <3>1
      <4>2. key \in Bytes /\ "=" \in Bytes /\ "\n" \in Bytes
        BY DEF Bytes
      <4>3. <<key, "=">> \in Seq(Bytes) /\ <<"\n">> \in Seq(Bytes)
        BY <4>2, ShortSequences
      <4>4. <<key, "=">> \o data[key] \in Seq(Bytes)
        BY <4>1, <4>3, ConcatProperties
      <4>5. <<key, "=">> \o data[key] \o <<"\n">> \in Seq(Bytes)
        BY <4>3, <4>4, ConcatProperties
      <4> QED BY <3>1, <4>5 DEF LineOf
    <3>2. CASE key \notin DOMAIN data
      BY <1>2, <3>2 DEF LineOf
    <3> QED BY <3>1, <3>2
  <2> QED BY <1>1, <2>1
<1>4. ConfigHash(data) = LineOf(data, StdKey) \o LineOf(data, CRSKey)
                           \o LineOf(data, OtherKey)
  BY DEF ConfigHash, LineOf, SortedKeys
<1>5. third = LineOf(data, OtherKey)
  BY <1>3, ConcatEmptySeq
<1>6. NextLine(third, {OtherKey})
  <2>1. NextLine(third, {} \cup {OtherKey})
    BY <1>1, <1>2, LinesCompose
  <2> QED BY <2>1
<1> HIDE DEF third
<1>7. NextLine(second, {OtherKey, CRSKey})
  <2>1. NextLine(second, {OtherKey} \cup {CRSKey})
    BY <1>1, <1>6, LinesCompose
  <2>2. {OtherKey} \cup {CRSKey} = {OtherKey, CRSKey}
    OBVIOUS
  <2> QED BY <2>1, <2>2
<1>8. ConfigHash(data) = LineOf(data, StdKey) \o second
  BY <1>3, <1>4, <1>5, ConcatAssociative
<1> QED BY <1>6, <1>7, <1>8 DEF third

(* Two ConfigMaps whose values do not imitate a line have one hash only if *)
(* they hold the same (controller.go:515-533).                             *)
LEMMA HashTellsDataApart ==
  ASSUME NEW a \in ConfigData, NEW b \in ConfigData,
         \A key \in DOMAIN a : ~EmbedsLine(a[key]),
         \A key \in DOMAIN b : ~EmbedsLine(b[key]),
         ConfigHash(a) = ConfigHash(b)
  PROVE  a = b
<1>1. /\ DOMAIN a \subseteq AllKeys /\ DOMAIN b \subseteq AllKeys
      /\ PlainMap(a) /\ PlainMap(b)
  <2>1. \A seq \in Seq(STRING) : seq \in Seq(Bytes)
    BY SeqMonotonic DEF Bytes
  <2> QED BY <2>1, ConfigDataAssumption DEF AllKeys, PlainMap
<1>2. AllKeys = {StdKey, CRSKey, OtherKey}
  BY DEF AllKeys, SortedKeys
<1>3. StdKey # CRSKey /\ StdKey # OtherKey /\ CRSKey # OtherKey
  BY DEF StdKey, CRSKey, OtherKey
<1> DEFINE Third(data) == LineOf(data, OtherKey) \o <<>>
           Second(data) == LineOf(data, CRSKey) \o Third(data)
           Same(key) == /\ key \in DOMAIN a <=> key \in DOMAIN b
                        /\ key \in DOMAIN a => a[key] = b[key]
<1>4. /\ NextLine(Third(a), {OtherKey}) /\ NextLine(Second(a), {OtherKey, CRSKey})
      /\ ConfigHash(a) = LineOf(a, StdKey) \o Second(a)
  BY <1>1, HashIsLines DEF PlainMap
<1>5. /\ NextLine(Third(b), {OtherKey}) /\ NextLine(Second(b), {OtherKey, CRSKey})
      /\ ConfigHash(b) = LineOf(b, StdKey) \o Second(b)
  BY <1>1, HashIsLines DEF PlainMap
<1>6. NextLine(<<>>, {})
  BY EmptySeq DEF NextLine
<1>7. StdKey \in AllKeys /\ CRSKey \in AllKeys /\ OtherKey \in AllKeys
  BY <1>2
<1>8. Same(StdKey) /\ Second(a) = Second(b)
  <2>1. Follows(Second(a), StdKey) /\ Follows(Second(b), StdKey)
    BY <1>2, <1>3, <1>4, <1>5 DEF Follows, NextLine
  <2>2. \E s : GoesOn(s, a, StdKey, Second(a)) /\ GoesOn(s, b, StdKey, Second(b))
    BY <1>4, <1>5 DEF GoesOn
  <2> HIDE DEF Second
  <2> QED BY <1>1, <1>7, <2>1, <2>2, LinesComeApart
<1>9. Same(CRSKey) /\ Third(a) = Third(b)
  <2>1. Follows(Third(a), CRSKey) /\ Follows(Third(b), CRSKey)
    BY <1>2, <1>3, <1>4, <1>5 DEF Follows, NextLine
  <2>2. \E s : GoesOn(s, a, CRSKey, Third(a)) /\ GoesOn(s, b, CRSKey, Third(b))
    BY <1>8 DEF GoesOn, Second
  <2> HIDE DEF Third
  <2> QED BY <1>1, <1>7, <2>1, <2>2, LinesComeApart
<1>10. Same(OtherKey)
  <2>1. Follows(<<>>, OtherKey)
    BY <1>6, EmptySeq DEF Follows, NextLine
  <2>2. \E s : GoesOn(s, a, OtherKey, <<>>) /\ GoesOn(s, b, OtherKey, <<>>)
    BY <1>9 DEF GoesOn, Third
  <2> QED BY <1>1, <1>7, <2>1, <2>2, LinesComeApart
<1>11. DOMAIN a = DOMAIN b /\ \A key \in DOMAIN a : a[key] = b[key]
  BY <1>1, <1>2, <1>8, <1>9, <1>10
<1> QED BY <1>1, <1>11 DEF PlainMap

(* What changes in the ConfigMap changes the pods: the mount when it       *)
(* appears or goes, the hash otherwise.                                    *)
LEMMA DataDecideRendering ==
  ASSUME NEW v, NEW w, NEW a \in Configs, NEW b \in Configs,
         Plain(a), Plain(b), a # b
  PROVE  Rendered(v, a) # Rendered(w, b)
<1> SUFFICES ASSUME Rendered(v, a) = Rendered(w, b) PROVE FALSE
  OBVIOUS
<1>1. HashOf(a) = HashOf(b)
  <2>1. Rendered(v, a).annotation = Rendered(w, b).annotation
    OBVIOUS
  <2> QED BY <2>1 DEF Rendered
<1>2. (a # NoConfig) = (b # NoConfig)
  <2>1. Rendered(v, a).mounted = Rendered(w, b).mounted
    OBVIOUS
  <2> QED BY <2>1, Zenon DEF Rendered
<1>3. a # NoConfig /\ b # NoConfig
  BY <1>2
<1>4. a \in ConfigData /\ b \in ConfigData /\ ConfigHash(a) = ConfigHash(b)
  BY <1>1, <1>3 DEF Configs, HashOf
<1>5. a = b
  BY <1>3, <1>4, HashTellsDataApart DEF Plain
<1> QED BY <1>5

(* A ConfigMap with other data makes new pods, whatever the keys and the   *)
(* values are, unless a value imitates the line of another key             *)
(* (controller.go:405-407, 417-421, 515-533).                              *)
THEOREM ChangesRestart == Spec => RestartsOnConfigChange
<1>1. ASSUME RenderInv, RenderInv', Next, seen # <<>>, seen'[2] # seen[2],
             Plain(seen[2]), Plain(seen'[2])
      PROVE  deployment' # deployment
  <2>1. CASE Change
    BY <1>1, <2>1 DEF Change
  <2>2. CASE Render
    <3>1. seen' # <<>>
      BY <2>2 DEF Render
    <3>2. /\ deployment' = Rendered(seen'[1], seen'[2])
          /\ deployment = Rendered(seen[1], seen[2])
          /\ seen'[2] \in Configs /\ seen[2] \in Configs
      BY <1>1, <3>1 DEF RenderInv
    <3> QED BY <1>1, <3>2, DataDecideRendering
  <2> QED BY <1>1, <2>1, <2>2 DEF Next
<1>2. RenderInv /\ RenderInv' /\ [Next]_vars
        => [ seen # <<>> /\ seen'[2] # seen[2] /\ Plain(seen[2]) /\ Plain(seen'[2])
             => deployment' # deployment ]_seen
  BY <1>1 DEF vars
<1> QED BY <1>2, RenderInvariant, PTL DEF Spec, RestartsOnConfigChange
===============================================================================
