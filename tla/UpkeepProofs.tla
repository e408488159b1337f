---------------------------- MODULE UpkeepProofs ----------------------------
(* Proofs about the add-on's source and settings, and about MCUpkeep, whose  *)
(* instance runs this and the parts of the modules it extends beside each    *)
(* other.                                                                    *)
EXTENDS MCUpkeep, AddonBackupsProofs, BoardProofs, PanelProofs, TLAPS

-----------------------------------------------------------------------------
(* The source of an add-on, under the review and the build: every field of   *)
(* every record is a step or a commit, whatever requests do meanwhile.       *)
Builders == [pc : {"idle", "copy", "copying", "build"}, files : Files]
Clones == [dir : BOOLEAN, meta : BOOLEAN, files : Files]
Handling == [pc : {"idle", "cloned", "fetched", "reset", "removing"}, files : Files]

LEMMA BuilderCopied ==
  ASSUME NEW b \in Builders, NEW f \in Files, NEW p \in {"idle", "copy", "copying", "build"}
  PROVE  [b EXCEPT !.pc = p, !.files = f] \in Builders
<1> DEFINE c == [b EXCEPT !.pc = p]
<1>1. [b EXCEPT !.pc = p, !.files = f] = [c EXCEPT !.files = f]
  OBVIOUS
<1>2. c \in Builders
  BY SMT DEF Builders
<1> HIDE DEF c
<1>3. [c EXCEPT !.files = f] \in Builders
  BY <1>2, SMT DEF Builders
<1> QED BY <1>1, <1>3, Zenon

LEMMA CloneForgets == \A c \in Clones, b \in BOOLEAN : [c EXCEPT !.meta = b] \in Clones
  BY SMT DEF Clones

LEMMA CloneFiles == \A c \in Clones, f \in Files : [c EXCEPT !.files = f] \in Clones
  BY SMT DEF Clones

LEMMA ReviewSteps ==
  \A r \in Reviews, f \in Files :
    [r EXCEPT !.pc = "planned"] \in Reviews /\ [r EXCEPT !.hash = f] \in Reviews
  BY SMT DEF Reviews, Files

LEMMA ReviewHashed ==
  \A r \in Reviews, f \in Files : [r EXCEPT !.pc = "planned", !.hash = f] \in Reviews
<1> TAKE r \in Reviews, f \in Files
<1>1. [r EXCEPT !.pc = "planned", !.hash = f] = [[r EXCEPT !.pc = "planned"] EXCEPT !.hash = f]
  OBVIOUS
<1> QED BY <1>1, ReviewSteps, Zenon

LEMMA NoFilesType == NoFiles \in Files
  BY SourcesAssumption, SMT DEF NoFiles, Files

LEMMA NoReviewType == NoReview \in Reviews
  BY NoFilesType, SourcesAssumption, SMT DEF NoReview, Reviews

LEMMA CommitType == ASSUME NEW c \in 1..MaxCommit PROVE At(c) \in Files
  BY SMT DEF At, Files

LEMMA SrcInitially == SrcInit => SrcTypeOK
<1> SUFFICES ASSUME SrcInit PROVE SrcTypeOK
  OBVIOUS
<1>1. 1 \in 1..MaxCommit
  BY SourcesAssumption, SMT
<1>2. NoClone \in Clones /\ Rest \in Handling /\ NoBuild \in Builders
  BY NoFilesType, Zenon DEF NoClone, Clones, Rest, Handling, NoBuild, Builders
<1>3. handler \in [Handlers -> Handling]
  BY <1>2, SMT DEF SrcInit
<1>4. built \in [files : Files, review : Reviews]
  BY NoFilesType, NoReviewType, SMT DEF SrcInit
<1> QED BY <1>1, <1>2, <1>3, <1>4, NoReviewType, Zenon
        DEF SrcInit, SrcTypeOK, Clones, Handling, Builders

LEMMA SrcStep == SrcTypeOK /\ [SrcNext]_srcVars => SrcTypeOK'
<1> SUFFICES ASSUME SrcTypeOK, [SrcNext]_srcVars PROVE SrcTypeOK'
  OBVIOUS
<1>0. /\ clone \in Clones /\ handler \in [Handlers -> Handling] /\ upstream \in 1..MaxCommit
      /\ review \in Reviews /\ builder \in Builders /\ built \in [files : Files, review : Reviews]
      /\ clone.files \in Files /\ review.hash \in Files /\ builder.files \in Files
  BY SMT DEF SrcTypeOK, Clones, Handling, Builders, Reviews
<1> USE <1>0
<1>1. CASE Commits
  <2>1. upstream' \in 1..MaxCommit /\ UNCHANGED <<clone, handler, review, builder, built>>
    BY <1>1, SourcesAssumption, SMT DEF Commits
  <2> QED BY <2>1, Zenon DEF SrcTypeOK
<1>2. ASSUME clone' \in Clones, handler' \in [Handlers -> Handling],
             UNCHANGED <<upstream, review, builder, built>>
      PROVE  SrcTypeOK'
  BY <1>2, Zenon DEF SrcTypeOK, Clones, Handling
<1>3. ASSUME NEW h \in Handlers, Adds(h) \/ Fetches(h) \/ RefreshFails(h) \/ Removes(h)
      PROVE  SrcTypeOK'
  <2>1. UNCHANGED <<clone, review, builder, built, upstream>>
    BY <1>3, Zenon DEF Adds, Fetches, RefreshFails, Removes
  <2>2. handler' \in [Handlers -> Handling]
    BY <1>3, NoFilesType, CommitType, SMT
    DEF Adds, Fetches, RefreshFails, Removes, Does, Rests, Rest, Handling
  <2> QED BY <1>2, <2>1, <2>2
<1>4. ASSUME NEW h \in Handlers, Renames(h) PROVE SrcTypeOK'
  <2>1. clone' \in Clones
    <3>1. handler[h].files \in Files
      BY SMT DEF Handling
    <3>2. CASE clone.dir
      BY <1>4, <3>2 DEF Renames
    <3>3. CASE ~clone.dir
      <4>1. clone' = [dir |-> TRUE, meta |-> TRUE, files |-> handler[h].files]
        BY <1>4, <3>3, Zenon DEF Renames
      <4> QED BY <3>1, <4>1, SMT DEF Clones
    <3> QED BY <3>2, <3>3
  <2>2. handler' \in [Handlers -> Handling]
    BY <1>4, NoFilesType, SMT DEF Renames, Rests, Rest, Handling
  <2> QED BY <1>2, <1>4, <2>1, <2>2, Zenon DEF Renames
<1>5. ASSUME NEW h \in Handlers, ResetStarts(h) PROVE SrcTypeOK'
  <2>1. clone' \in Clones
    <3>1. clone' = [clone EXCEPT !.files = [clone.files EXCEPT !.manifest = handler[h].files.manifest]]
      BY <1>5, SMT DEF ResetStarts, Clones
    <3>2. [clone.files EXCEPT !.manifest = handler[h].files.manifest] \in Files
      BY SMT DEF Handling, Files
    <3> QED BY <3>1, <3>2, CloneFiles, Zenon
  <2>2. handler' \in [Handlers -> Handling]
    BY <1>5, SMT DEF ResetStarts, Does, Handling
  <2> QED BY <1>2, <1>5, <2>1, <2>2, Zenon DEF ResetStarts
<1>6. ASSUME NEW h \in Handlers, ResetEnds(h) PROVE SrcTypeOK'
  <2>1. clone' \in Clones
    <3>1. clone' = [clone EXCEPT !.files = [clone.files EXCEPT !.source = handler[h].files.source]]
      BY <1>6, SMT DEF ResetEnds, Clones
    <3>2. [clone.files EXCEPT !.source = handler[h].files.source] \in Files
      BY SMT DEF Handling, Files
    <3> QED BY <3>1, <3>2, CloneFiles, Zenon
  <2>2. handler' \in [Handlers -> Handling]
    BY <1>6, NoFilesType, SMT DEF ResetEnds, Rests, Rest, Handling
  <2> QED BY <1>2, <1>6, <2>1, <2>2, Zenon DEF ResetEnds
<1>7. ASSUME NEW h \in Handlers, RemoveGoesOn(h) PROVE SrcTypeOK'
  <2>1. clone' \in Clones
    <3>1. clone' \in {clone, [clone EXCEPT !.meta = FALSE], [clone EXCEPT !.files = NoFiles], NoClone}
      BY <1>7, Zenon DEF RemoveGoesOn
    <3>2. NoClone \in Clones
      BY NoFilesType, Zenon DEF NoClone, Clones
    <3>3. [clone EXCEPT !.meta = FALSE] \in Clones /\ [clone EXCEPT !.files = NoFiles] \in Clones
      BY NoFilesType, CloneForgets, CloneFiles, Zenon
    <3> QED BY <3>1, <3>2, <3>3, Zenon
  <2>2. handler' \in [Handlers -> Handling]
    BY <1>7, NoFilesType, SMT DEF RemoveGoesOn, Rests, Rest, Handling
  <2> QED BY <1>2, <1>7, <2>1, <2>2, Zenon DEF RemoveGoesOn
<1>8. CASE ReadsRaw \/ Hashes \/ Expired
  <2>1. UNCHANGED <<clone, builder, built, upstream, handler>>
    BY <1>8, Zenon DEF ReadsRaw, Hashes, Expired
  <2>2. review' \in Reviews
    <3>1. CASE ReadsRaw
      <4>1. review' = [pc |-> "hash", raw |-> clone.files.manifest, hash |-> NoFiles]
        BY <3>1, Zenon DEF ReadsRaw
      <4>2. clone.files.manifest \in 0..MaxCommit
        BY SMT DEF Files
      <4> QED BY <4>1, <4>2, NoFilesType, SMT DEF Reviews
    <3>2. CASE Hashes
      BY <3>2, ReviewHashed, NoReviewType, Zenon DEF Hashes
    <3>3. CASE Expired
      BY <3>3, NoReviewType, Zenon DEF Expired
    <3> QED BY <1>8, <3>1, <3>2, <3>3
  <2> QED BY <2>1, <2>2, Zenon DEF SrcTypeOK
<1>9. CASE Compares
  <2>1. UNCHANGED <<upstream, clone, handler, built>> /\ review' \in {review, NoReview}
    BY <1>9, Zenon DEF Compares
  <2>2. builder' \in Builders
    <3>1. [NoBuild EXCEPT !.pc = "copy"] = [pc |-> "copy", files |-> NoFiles]
      BY SMT DEF NoBuild
    <3>2. builder' \in {builder, [pc |-> "copy", files |-> NoFiles]}
      BY <1>9, <3>1, Zenon DEF Compares
    <3>3. [pc |-> "copy", files |-> NoFiles] \in Builders
      BY NoFilesType, Zenon DEF Builders
    <3> QED BY <3>2, <3>3, Zenon
  <2> QED BY <2>1, <2>2, NoReviewType, Zenon DEF SrcTypeOK, Builders
<1>10. CASE CopiesFile
  <2>1. UNCHANGED <<upstream, clone, handler, built, review>>
    BY <1>10, Zenon DEF CopiesFile
  <2>2. builder' \in Builders
    <3> DEFINE had == builder.files
               first == [had EXCEPT !.manifest = clone.files.manifest]
               both == [had EXCEPT !.source = clone.files.source]
    <3>1. first \in Files /\ both \in Files
      <4>1. clone.files.manifest \in 0..MaxCommit /\ clone.files.source \in 0..MaxCommit
        BY SMT DEF Files
      <4>2. had \in Files
        OBVIOUS
      <4> HIDE DEF had
      <4> QED BY <4>1, <4>2, SMT DEF Files
    <3>2. \/ builder' = [builder EXCEPT !.pc = "copying", !.files = first]
          \/ builder' = [builder EXCEPT !.pc = "build", !.files = both]
      BY <1>10, SMT DEF CopiesFile, Builders
    <3> HIDE DEF first, both
    <3>3. \A f \in Files, p \in {"idle", "copy", "copying", "build"} :
            [builder EXCEPT !.pc = p, !.files = f] \in Builders
      BY BuilderCopied, Zenon
    <3> QED BY <3>1, <3>2, <3>3, Zenon
  <2> QED BY <2>1, <2>2, Zenon DEF SrcTypeOK, Builders
<1>11. CASE Builds
  <2>1. UNCHANGED <<upstream, clone, handler>> /\ review' = NoReview /\ builder' = NoBuild
    BY <1>11, Zenon DEF Builds
  <2>2. NoBuild \in Builders
    BY NoFilesType, Zenon DEF NoBuild, Builders
  <2>3. built' \in [files : Files, review : Reviews]
    <3>1. built' = built \/ built' = [files |-> builder.files, review |-> review]
      BY <1>11, Zenon DEF Builds
    <3>2. [files |-> builder.files, review |-> review] \in [files : Files, review : Reviews]
      BY Zenon
    <3> QED BY <3>1, <3>2, Zenon
  <2> QED BY <2>1, <2>2, <2>3, NoReviewType, Zenon DEF SrcTypeOK, Builders
<1>12. CASE UNCHANGED srcVars
  BY <1>12, Zenon DEF srcVars, SrcTypeOK
<1> QED BY <1>1, <1>3, <1>4, <1>5, <1>6, <1>7, <1>8, <1>9, <1>10, <1>11, <1>12, Zenon DEF SrcNext

-----------------------------------------------------------------------------
(* Options: settings with all their fields, and options that were checked.   *)
Full(c, g, p, l) == [config |-> c, grants |-> g, ports |-> p, lan |-> l]

Checked(m, c) ==
  /\ c \in Partial(OptionNames, Values) /\ DOMAIN c \subseteq DOMAIN m.schema
  /\ \A k \in DOMAIN c : c[k] \notin {Null, "unfit"}
  /\ \A k \in DOMAIN m.schema \ DOMAIN c : MayBeLeftOut(m.schema[k])

WellSet(m, o) ==
  /\ o = Full(o.config, o.grants, o.ports, o.lan) /\ o.lan \in BOOLEAN
  /\ Checked(m, o.config) /\ o.grants \subseteq m.needs /\ PortsFit(m, o)

(* What is in the record has been checked against the manifest that is       *)
(* installed.                                                                *)
OptInv == OptTypeOK /\ \A o \in stored : WellSet(manifest, o)

(* What options and the defaults for them come to.                           *)
LEMMA MergedSettings ==
  ASSUME NEW m
  PROVE  /\ \A c, g, p, l : Merged(m, Full(c, g, p, l)) = Full(Over(c, m.defaults), g, p, l)
         /\ \A g : Merged(m, [grants |-> g]) = Full(Over(<<>>, m.defaults), g, DefaultPorts(m), FALSE)
         /\ \A c, g : Merged(m, [config |-> c, grants |-> g]) =
                        Full(Over(c, m.defaults), g, DefaultPorts(m), FALSE)
<1> DEFINE D == m.defaults
           P == DefaultPorts(m)
           no == FALSE
           DS == DefaultSettings(m)
           M(x, c) == [Over(x, DS) EXCEPT !.config = Over(c, D)]
<1>1. DS = [config |-> D, grants |-> {}, ports |-> P, lan |-> no]
  BY Zenon DEF DefaultSettings
<1>2. ASSUME NEW x PROVE "config" \in DOMAIN x => Merged(m, x) = M(x, x.config)
  BY Zenon DEF Merged
<1>3. ASSUME NEW x PROVE "config" \notin DOMAIN x => Merged(m, x) = M(x, <<>>)
  BY Zenon DEF Merged
<1> HIDE DEF D, P, no, DS
<1>4. ASSUME NEW c, NEW g, NEW p, NEW l
      PROVE  Merged(m, Full(c, g, p, l)) = Full(Over(c, D), g, p, l)
  <2>1. "config" \in DOMAIN Full(c, g, p, l) /\ Full(c, g, p, l).config = c
    BY SMT DEF Full
  <2>2. Over(Full(c, g, p, l), DS) = Full(c, g, p, l)
    BY <1>1, SMT DEF Over, Full
  <2>3. Merged(m, Full(c, g, p, l)) = [Full(c, g, p, l) EXCEPT !.config = Over(c, D)]
    BY <1>2, <2>1, <2>2, Zenon
  <2> QED BY <2>3, SMT DEF Full
<1>5. ASSUME NEW g
      PROVE  Merged(m, [grants |-> g]) = Full(Over(<<>>, D), g, P, no)
  <2>1. "config" \notin DOMAIN [grants |-> g]
    BY SMT
  <2>2. Over([grants |-> g], DS) = Full(D, g, P, no)
    BY <1>1, SMT DEF Over, Full
  <2>3. Merged(m, [grants |-> g]) = [Full(D, g, P, no) EXCEPT !.config = Over(<<>>, D)]
    BY <1>3, <2>1, <2>2, Zenon
  <2> QED BY <2>3, SMT DEF Full
<1>6. ASSUME NEW c, NEW g
      PROVE  Merged(m, [config |-> c, grants |-> g]) = Full(Over(c, D), g, P, no)
  <2>1. "config" \in DOMAIN [config |-> c, grants |-> g] /\ [config |-> c, grants |-> g].config = c
    BY SMT
  <2>2. Over([config |-> c, grants |-> g], DS) = Full(c, g, P, no)
    BY <1>1, SMT DEF Over, Full
  <2>3. Merged(m, [config |-> c, grants |-> g]) = [Full(c, g, P, no) EXCEPT !.config = Over(c, D)]
    BY <1>2, <2>1, <2>2, Zenon
  <2> QED BY <2>3, SMT DEF Full
<1> QED BY <1>4, <1>5, <1>6, Zenon DEF D, P, no

LEMMA MergedFull ==
  ASSUME NEW m, NEW c, NEW g, NEW p, NEW l, NEW s, s = Full(c, g, p, l)
  PROVE  Merged(m, s) = Full(Over(c, m.defaults), g, p, l)
<1>1. \A a, b, d, e : Merged(m, Full(a, b, d, e)) = Full(Over(a, m.defaults), b, d, e)
  BY MergedSettings, Zenon
<1>2. Merged(m, Full(c, g, p, l)) = Full(Over(c, m.defaults), g, p, l)
  BY <1>1
<1> QED BY <1>2, Zenon

LEMMA SamePortsFit ==
  ASSUME NEW m, NEW x, NEW y, y.ports = x.ports, y.lan = x.lan, PortsFit(m, x)
  PROVE  PortsFit(m, y)
BY Zenon DEF PortsFit

LEMMA PartialValues ==
  /\ \A m \in Manifests : DOMAIN m.schema \subseteq OptionNames
  /\ \A S, T, f : f \in Partial(S, T) <=> DOMAIN f \subseteq S /\ f \in [DOMAIN f -> T]
  /\ OptionSets \subseteq Partial(OptionNames, Values)
<1>1. \A m \in Manifests : DOMAIN m.schema \subseteq OptionNames
  BY Zenon DEF OptionNames
<1>2. \A S, T, f : f \in Partial(S, T) <=> DOMAIN f \subseteq S /\ f \in [DOMAIN f -> T]
  BY SMT DEF Partial
<1>3. OptionSets \subseteq Partial(OptionNames, Values)
  BY <1>2, OptionsAssumption, SMT DEF OptionSets
<1> QED BY <1>1, <1>2, <1>3

LEMMA OverDefaults ==
  ASSUME NEW m \in Manifests, NEW c, c \in Partial(OptionNames, Values) \/ c = <<>>
  PROVE  Over(c, m.defaults) \in Partial(OptionNames, Values)
<1>1. DOMAIN c \subseteq OptionNames /\ \A k \in DOMAIN c : c[k] \in Values
  <2>1. CASE c = <<>>
    <3>1. DOMAIN c = {}
      BY <2>1, SMT
    <3> QED BY <3>1, Zenon
  <2>2. CASE c \in Partial(OptionNames, Values)
    <3>1. DOMAIN c \subseteq OptionNames /\ c \in [DOMAIN c -> Values]
      BY <2>2, PartialValues, Zenon
    <3> QED BY <3>1, Zenon
  <2> QED BY <2>1, <2>2
<1>2. /\ DOMAIN m.defaults \subseteq OptionNames
      /\ \A k \in DOMAIN m.defaults : m.defaults[k] \in Values
  BY OptionsAssumption, PartialValues, SMT DEF Values
<1>3. \A k \in DOMAIN c \cup DOMAIN m.defaults :
        k \in OptionNames /\ (IF k \in DOMAIN c THEN c[k] ELSE m.defaults[k]) \in Values
  BY <1>1, <1>2, Zenon
<1>4. DOMAIN Over(c, m.defaults) = DOMAIN c \cup DOMAIN m.defaults
  BY Zenon DEF Over
<1>5. Over(c, m.defaults) \in [DOMAIN c \cup DOMAIN m.defaults -> Values]
  BY <1>3, Zenon DEF Over
<1>6. DOMAIN Over(c, m.defaults) \subseteq OptionNames
  BY <1>3, <1>4, Zenon
<1> QED BY <1>4, <1>5, <1>6, PartialValues, Zenon

(* Options that fit the schema are checked once those without a value are    *)
(* left out, and options that were checked fit it again with the defaults.   *)
LEMMA ValidatedIsChecked ==
  ASSUME NEW m \in Manifests, NEW d \in Partial(OptionNames, Values), FitsSchema(m.schema, d)
  PROVE  Checked(m, Validated(d))
<1>1. DOMAIN Validated(d) = {n \in DOMAIN d : d[n] # Null}
      /\ \A k \in DOMAIN Validated(d) : Validated(d)[k] = d[k]
  BY Zenon DEF Validated
<1>2. DOMAIN d \subseteq OptionNames /\ d \in [DOMAIN d -> Values]
  BY PartialValues, Zenon
<1>3. Validated(d) \in [DOMAIN Validated(d) -> Values]
  BY <1>1, <1>2, SMT DEF Validated
<1>4. Validated(d) \in Partial(OptionNames, Values)
  BY <1>1, <1>2, <1>3, PartialValues, Zenon
<1>5. DOMAIN d \subseteq DOMAIN m.schema
  BY Zenon DEF FitsSchema
<1>6. \A k \in DOMAIN Validated(d) : Validated(d)[k] \notin {Null, "unfit"}
  BY <1>1, <1>5, Zenon DEF FitsSchema, ValueIn
<1>7. ASSUME NEW k \in DOMAIN m.schema \ DOMAIN Validated(d) PROVE MayBeLeftOut(m.schema[k])
  <2>1. ValueIn(d, k) = Null
    BY <1>1, <1>7, Zenon DEF ValueIn
  <2> QED BY <2>1, Zenon DEF FitsSchema
<1> QED BY <1>1, <1>4, <1>5, <1>6, <1>7, Zenon DEF Checked

LEMMA CheckedFits ==
  ASSUME NEW m \in Manifests, NEW c, Checked(m, c)
  PROVE  FitsSchema(m.schema, Over(c, m.defaults))
<1> DEFINE d == Over(c, m.defaults)
<1>1. /\ DOMAIN d = DOMAIN c \cup DOMAIN m.defaults
      /\ \A k \in DOMAIN d : d[k] = IF k \in DOMAIN c THEN c[k] ELSE m.defaults[k]
  BY Zenon DEF Over
<1> HIDE DEF d
<1>2. DOMAIN d \subseteq DOMAIN m.schema
  BY <1>1, OptionsAssumption, Zenon DEF Checked
<1>3. ASSUME NEW k \in DOMAIN m.schema
      PROVE  ValueIn(d, k) # "unfit" /\ (ValueIn(d, k) = Null => MayBeLeftOut(m.schema[k]))
  <2>1. CASE k \in DOMAIN c
    BY <1>1, <2>1, Zenon DEF Checked, ValueIn
  <2>2. CASE k \notin DOMAIN c
    <3>1. MayBeLeftOut(m.schema[k])
      BY <2>2, Zenon DEF Checked
    <3>2. ValueIn(d, k) \in {Null, "default"}
      BY <1>1, <2>2, OptionsAssumption, Zenon DEF ValueIn
    <3>3. ValueIn(d, k) # "unfit"
      BY <3>2, SMT DEF Null
    <3> QED BY <3>1, <3>3
  <2> QED BY <2>1, <2>2
<1> QED BY <1>2, <1>3, Zenon DEF FitsSchema, d

LEMMA CheckedAgain ==
  ASSUME NEW m \in Manifests, NEW c, Checked(m, c), NEW k
  PROVE  LET again == ValueIn(Validated(Over(c, m.defaults)), k) IN
         again # ValueIn(c, k) => ValueIn(c, k) = Null /\ again = "default"
<1> DEFINE d == Over(c, m.defaults)
           v == Validated(d)
<1>1. /\ DOMAIN d = DOMAIN c \cup DOMAIN m.defaults
      /\ \A n \in DOMAIN d : d[n] = IF n \in DOMAIN c THEN c[n] ELSE m.defaults[n]
  BY Zenon DEF Over
<1> HIDE DEF d
<1>2. /\ DOMAIN v = {n \in DOMAIN d : d[n] # Null}
      /\ \A n \in DOMAIN v : v[n] = d[n]
  BY Zenon DEF Validated
<1> HIDE DEF v
<1>3. CASE k \in DOMAIN c
  <2>1. c[k] # Null
    BY <1>3, Zenon DEF Checked
  <2>2. k \in DOMAIN v /\ v[k] = c[k]
    BY <1>1, <1>2, <1>3, <2>1, Zenon
  <2> QED BY <1>3, <2>2, Zenon DEF ValueIn, v, d
<1>4. CASE k \notin DOMAIN c
  <2>1. ValueIn(c, k) = Null
    BY <1>4, Zenon DEF ValueIn
  <2>2. CASE k \in DOMAIN v
    <3>1. k \in DOMAIN m.defaults /\ v[k] = m.defaults[k] /\ v[k] # Null
      BY <1>1, <1>2, <1>4, <2>2, Zenon
    <3>2. v[k] = "default"
      BY <3>1, OptionsAssumption, Zenon
    <3> QED BY <2>1, <2>2, <3>2, Zenon DEF ValueIn, v, d
  <2>3. CASE k \notin DOMAIN v
    BY <2>1, <2>3, Zenon DEF ValueIn, v, d
  <2> QED BY <2>2, <2>3
<1> QED BY <1>3, <1>4

(* Settings that are accepted are recorded as what checking them again gives.*)
LEMMA AcceptedIsRecorded ==
  ASSUME NEW m \in Manifests, NEW s, NEW c, NEW g, NEW p, NEW l \in BOOLEAN,
         c \in Partial(OptionNames, Values) \/ c = <<>>,
         Merged(m, s) = Full(Over(c, m.defaults), g, p, l), AcceptsSettings(m, s)
  PROVE  /\ WellSet(m, Settings(m, s))
         /\ Settings(m, s) = Full(Validated(Over(c, m.defaults)), g, p, l)
         /\ Settings(m, s).config \in Partial(OptionNames, Values)
<1> DEFINE d == Over(c, m.defaults)
           o == Full(Validated(d), g, p, l)
<1>1. d \in Partial(OptionNames, Values)
  BY OverDefaults
<1>2. Merged(m, s).config = d /\ Merged(m, s).grants = g /\ Merged(m, s).ports = p
      /\ Merged(m, s).lan = l
  <2>1. Merged(m, s) = Full(d, g, p, l)
    OBVIOUS
  <2> HIDE DEF d
  <2> QED BY <2>1, SMT DEF Full
<1>3. Merged(m, s) = Full(d, g, p, l)
  OBVIOUS
<1> HIDE DEF d
<1>9. Checked(m, Validated(d))
  BY <1>1, <1>2, ValidatedIsChecked, Zenon DEF AcceptsSettings
<1>4. Settings(m, s) = o
  <2> DEFINE v == Validated(d)
  <2>1. Settings(m, s) = [Merged(m, s) EXCEPT !.config = v]
    BY <1>2, Zenon DEF Settings
  <2> HIDE DEF v
  <2>2. [Full(d, g, p, l) EXCEPT !.config = v] = Full(v, g, p, l)
    BY SMT DEF Full
  <2> QED BY <1>3, <2>1, <2>2, Zenon DEF v
<1>5. o.config = Validated(d) /\ o.grants = g /\ o.ports = p /\ o.lan = l
  BY Zenon DEF Full
<1>6. o = Full(o.config, o.grants, o.ports, o.lan)
  BY <1>5, Zenon
<1> HIDE DEF o
<1>7. PortsFit(m, o) /\ g \subseteq m.needs
  <2>1. PortsFit(m, Merged(m, s)) /\ Merged(m, s).grants \subseteq m.needs
    BY Zenon DEF AcceptsSettings
  <2>2. o.ports = Merged(m, s).ports /\ o.lan = Merged(m, s).lan
    BY <1>2, <1>5, Zenon
  <2> QED BY <2>1, <2>2, <1>2, SamePortsFit, Zenon
<1>8. WellSet(m, o)
  BY <1>5, <1>6, <1>7, <1>9, Zenon DEF WellSet
<1> QED BY <1>9, <1>4, <1>5, <1>8, Zenon DEF Checked, o, d

(* The inductive invariant holds at first.                                   *)
LEMMA OptInitially == OptInit => OptInv
<1> SUFFICES ASSUME OptInit PROVE OptInv
  OBVIOUS
<1>1. offered \in Manifests /\ manifest \in Manifests /\ stored = {} /\ archived = {}
  BY Zenon DEF OptInit
<1> QED BY <1>1, Zenon DEF OptInv, OptTypeOK

(* What each request puts in the record.                                     *)
LEMMA InstalledIsRecorded ==
  ASSUME NEW m \in Manifests, NEW config \in OptionSets, NEW grants, NEW s,
         s \in {[grants |-> grants], [config |-> config, grants |-> grants]} \cup
           [config : {config}, grants : {grants}, ports : Partial(ContainerPorts, HostPorts), lan : BOOLEAN],
         AcceptsSettings(m, s)
  PROVE  WellSet(m, Settings(m, s)) /\ Settings(m, s).config \in Partial(OptionNames, Values)
<1> DEFINE no == FALSE
           Goal == WellSet(m, Settings(m, s)) /\ Settings(m, s).config \in Partial(OptionNames, Values)
<1>1. no \in BOOLEAN
  OBVIOUS
<1>2. \A g : Merged(m, [grants |-> g]) = Full(Over(<<>>, m.defaults), g, DefaultPorts(m), no)
  BY MergedSettings, Zenon
<1>3. \A c, g : Merged(m, [config |-> c, grants |-> g]) = Full(Over(c, m.defaults), g, DefaultPorts(m), no)
  BY MergedSettings, Zenon
<1> HIDE DEF no
<1>4. config \in Partial(OptionNames, Values)
  BY PartialValues, Zenon
<1>5. CASE s = [grants |-> grants]
  <2>1. Merged(m, s) = Full(Over(<<>>, m.defaults), grants, DefaultPorts(m), no)
    BY <1>2, <1>5, Zenon
  <2>2. Goal
    BY <1>1, <2>1, AcceptedIsRecorded, SMT
  <2> QED BY <2>2
<1>6. CASE s = [config |-> config, grants |-> grants]
  <2>1. Merged(m, s) = Full(Over(config, m.defaults), grants, DefaultPorts(m), no)
    BY <1>3, <1>6, Zenon
  <2>2. Goal
    BY <1>1, <1>4, <2>1, AcceptedIsRecorded, SMT
  <2> QED BY <2>2
<1>7. CASE s \in [config : {config}, grants : {grants}, ports : Partial(ContainerPorts, HostPorts), lan : BOOLEAN]
  <2> DEFINE p == s.ports
             l == s.lan
  <2>1. s = Full(config, grants, p, l) /\ l \in BOOLEAN
    <3> DEFINE sets == Partial(ContainerPorts, HostPorts)
    <3>1. s \in [config : {config}, grants : {grants}, ports : sets, lan : BOOLEAN]
      BY <1>7
    <3> HIDE DEF sets
    <3> QED BY <3>1, SMT DEF Full
  <2> HIDE DEF p, l
  <2>2. Merged(m, s) = Full(Over(config, m.defaults), grants, p, l)
    BY <2>1, MergedFull, SMT
  <2>3. Goal
    BY <1>4, <2>1, <2>2, AcceptedIsRecorded, SMT
  <2> QED BY <2>3
<1> QED BY <1>5, <1>6, <1>7, Zenon

LEMMA ChangedIsRecorded ==
  ASSUME NEW m \in Manifests, NEW o, WellSet(m, o), NEW config \in Partial(OptionNames, Values),
         NEW s, s = [o EXCEPT !.config = config], AcceptsSettings(m, s)
  PROVE  /\ WellSet(m, Settings(m, s)) /\ Settings(m, s).config \in Partial(OptionNames, Values)
         /\ [o EXCEPT !.config = Settings(m, s).config] = Settings(m, s)
<1> DEFINE c == o.config
           g == o.grants
           p == o.ports
           l == o.lan
           d == Validated(Over(config, m.defaults))
<1>1. o = Full(c, g, p, l) /\ l \in BOOLEAN
  BY Zenon DEF WellSet
<1> HIDE DEF c, g, p, l, d
<1>2. s = Full(config, g, p, l)
  <2>1. [Full(c, g, p, l) EXCEPT !.config = config] = Full(config, g, p, l)
    BY SMT DEF Full
  <2> QED BY <1>1, <2>1, Zenon
<1>3. Merged(m, s) = Full(Over(config, m.defaults), g, p, l)
  BY <1>2, MergedFull, SMT
<1>4. WellSet(m, Settings(m, s)) /\ Settings(m, s) = Full(d, g, p, l)
      /\ Settings(m, s).config \in Partial(OptionNames, Values)
  BY <1>1, <1>3, AcceptedIsRecorded, SMT DEF d
<1>5. [o EXCEPT !.config = Settings(m, s).config] = Settings(m, s)
  <2>1. Settings(m, s).config = d
    BY <1>4, SMT DEF Full
  <2>2. [Full(c, g, p, l) EXCEPT !.config = d] = Full(d, g, p, l)
    BY SMT DEF Full
  <2> QED BY <1>1, <1>4, <2>1, <2>2, Zenon
<1> QED BY <1>4, <1>5

(* An install, an update and a change of settings preserve it.               *)
LEMMA OptStep == OptInv /\ [OptNext]_optVars => OptInv'
<1> SUFFICES ASSUME OptInv, [OptNext]_optVars PROVE OptInv'
  OBVIOUS
<1>1. /\ offered \in Manifests /\ manifest \in Manifests
      /\ \A o \in stored : o.config \in Partial(OptionNames, Values) /\ WellSet(manifest, o)
      /\ archived \subseteq Partial(OptionNames, Values)
  BY Zenon DEF OptInv, OptTypeOK
<1>2. ASSUME /\ offered' \in Manifests /\ manifest' \in Manifests
             /\ \A o \in stored' : o.config \in Partial(OptionNames, Values) /\ WellSet(manifest', o)
             /\ archived' \subseteq Partial(OptionNames, Values)
      PROVE  OptInv'
  <2>1. \A o \in stored' : o.lan \in BOOLEAN
    BY <1>2, Zenon DEF WellSet
  <2> QED BY <1>2, <2>1, Zenon DEF OptInv, OptTypeOK
<1>3. CASE UNCHANGED optVars
  BY <1>1, <1>2, <1>3, Zenon DEF optVars
<1>4. CASE Offers
  BY <1>1, <1>2, <1>4, Zenon DEF Offers
<1>5. CASE Installs
  <2>1. PICK config \in OptionSets, grants \in {g \in SUBSET Privileges : offered.needs \subseteq g} :
          \E s \in {[grants |-> grants], [config |-> config, grants |-> grants]} \cup
             [config : {config}, grants : {grants}, ports : Partial(ContainerPorts, HostPorts), lan : BOOLEAN] :
            /\ AcceptsSettings(offered, s)
            /\ manifest' = offered
            /\ stored' = {Settings(offered, s)}
            /\ UNCHANGED <<offered, archived>>
    BY <1>5, Zenon DEF Installs
  <2>2. PICK s \in {[grants |-> grants], [config |-> config, grants |-> grants]} \cup
             [config : {config}, grants : {grants}, ports : Partial(ContainerPorts, HostPorts), lan : BOOLEAN] :
            /\ AcceptsSettings(offered, s)
            /\ manifest' = offered
            /\ stored' = {Settings(offered, s)}
            /\ UNCHANGED <<offered, archived>>
    BY <2>1, Zenon
  <2>3. WellSet(offered, Settings(offered, s)) /\ Settings(offered, s).config \in Partial(OptionNames, Values)
    BY <1>1, <2>2, InstalledIsRecorded, Zenon
  <2>4. \A o \in stored' : o.config \in Partial(OptionNames, Values) /\ WellSet(manifest', o)
    BY <2>2, <2>3, Zenon
  <2> QED BY <1>1, <1>2, <2>2, <2>4, Zenon
<1>6. ASSUME NEW o \in stored, ConfiguresAddon(o) \/ SetsOptions(o) PROVE OptInv'
  <2>1. PICK config \in OptionSets :
          /\ AcceptsSettings(manifest, [o EXCEPT !.config = config])
          /\ stored' = {Settings(manifest, [o EXCEPT !.config = config])}
          /\ UNCHANGED <<offered, manifest, archived>>
    BY <1>6, Zenon DEF ConfiguresAddon, SetsOptions
  <2> DEFINE s == [o EXCEPT !.config = config]
  <2>2. config \in Partial(OptionNames, Values)
    BY PartialValues, Zenon
  <2>3. WellSet(manifest, Settings(manifest, s)) /\ Settings(manifest, s).config \in Partial(OptionNames, Values)
    BY <1>1, <2>1, <2>2, ChangedIsRecorded, Zenon
  <2> HIDE DEF s
  <2>4. \A q \in stored' : q.config \in Partial(OptionNames, Values) /\ WellSet(manifest', q)
    BY <2>1, <2>3, Zenon DEF s
  <2> QED BY <1>1, <1>2, <2>1, <2>4, Zenon
<1>7. ASSUME NEW o \in stored, BacksUpOptions(o) PROVE OptInv'
  <2>1. archived' = {o.config} /\ UNCHANGED <<offered, manifest, stored>>
    BY <1>7, Zenon DEF BacksUpOptions
  <2>2. archived' \subseteq Partial(OptionNames, Values)
    BY <1>1, <2>1, Zenon
  <2> QED BY <1>1, <1>2, <2>1, <2>2, Zenon
<1>8. ASSUME NEW o \in stored, RestoresOptions(o) PROVE OptInv'
  <2>1. PICK config \in archived :
          /\ AcceptsSettings(manifest, [o EXCEPT !.config = config])
          /\ stored' = {[o EXCEPT !.config = Settings(manifest, [o EXCEPT !.config = config]).config]}
          /\ UNCHANGED <<offered, manifest, archived>>
    BY <1>8, Zenon DEF RestoresOptions
  <2> DEFINE s == [o EXCEPT !.config = config]
  <2>2. config \in Partial(OptionNames, Values)
    BY <1>1, Zenon
  <2>3. /\ WellSet(manifest, Settings(manifest, s)) /\ Settings(manifest, s).config \in Partial(OptionNames, Values)
        /\ [o EXCEPT !.config = Settings(manifest, s).config] = Settings(manifest, s)
    <3>1. AcceptsSettings(manifest, s)
      BY <2>1
    <3> HIDE DEF s
    <3>2. s = [o EXCEPT !.config = config]
      BY Zenon DEF s
    <3> QED BY <1>1, <2>2, <3>1, <3>2, ChangedIsRecorded, SMT
  <2>4. stored' = {Settings(manifest, s)}
    BY <2>1, <2>3, Zenon
  <2> HIDE DEF s
  <2>5. \A q \in stored' : q.config \in Partial(OptionNames, Values) /\ WellSet(manifest', q)
    BY <2>1, <2>3, <2>4, Zenon
  <2> QED BY <1>1, <1>2, <2>1, <2>5, Zenon
<1> QED BY <1>3, <1>4, <1>5, <1>6, <1>7, <1>8, Zenon DEF OptNext

(* Settings that were checked are accepted again, with the same values.      *)
LEMMA RecordedIsStable ==
  ASSUME OptInv PROVE OptionsStable
<1> SUFFICES ASSUME NEW o \in stored
             PROVE  /\ AcceptsSettings(manifest, o)
                    /\ \A k \in OptionNames :
                         LET again == ValueIn(Settings(manifest, o).config, k) IN
                         again # ValueIn(o.config, k) => ValueIn(o.config, k) = Null /\ again = "default"
  BY Zenon DEF OptionsStable
<1>1. manifest \in Manifests /\ WellSet(manifest, o)
  BY Zenon DEF OptInv, OptTypeOK
<1> DEFINE c == o.config
           g == o.grants
           p == o.ports
           l == o.lan
           d == Over(c, manifest.defaults)
           M == Merged(manifest, o)
<1>2. /\ o = Full(c, g, p, l) /\ l \in BOOLEAN /\ Checked(manifest, c)
      /\ g \subseteq manifest.needs /\ PortsFit(manifest, o)
  BY <1>1, Zenon DEF WellSet
<1>3. o.ports = p /\ o.lan = l /\ o.grants = g /\ o.config = c
  OBVIOUS
<1>4. FitsSchema(manifest.schema, d)
  BY <1>1, <1>2, CheckedFits, Zenon
<1>5. \A k : LET again == ValueIn(Validated(d), k) IN
             again # ValueIn(c, k) => ValueIn(c, k) = Null /\ again = "default"
  BY <1>1, <1>2, CheckedAgain, Zenon
<1> HIDE DEF c, g, p, l
<1>6. M = Full(d, g, p, l)
  BY <1>2, MergedFull, SMT
<1> HIDE DEF d, M
<1>7. M.config = d /\ M.grants = g /\ M.ports = p /\ M.lan = l
  BY <1>6, SMT DEF Full
<1>8. PortsFit(manifest, M)
  BY <1>2, <1>3, <1>7, SamePortsFit, Zenon
<1>9. AcceptsSettings(manifest, o)
  BY <1>2, <1>4, <1>7, <1>8, Zenon DEF AcceptsSettings, M
<1>10. Settings(manifest, o).config = Validated(d)
  <2> DEFINE v == Validated(d)
  <2>1. Settings(manifest, o) = [M EXCEPT !.config = v]
    BY <1>7, Zenon DEF Settings, M
  <2> HIDE DEF v
  <2>2. [Full(d, g, p, l) EXCEPT !.config = v].config = v
    BY SMT DEF Full
  <2> QED BY <1>6, <2>1, <2>2, Zenon DEF v
<1> QED BY <1>3, <1>5, <1>9, <1>10, Zenon

(* Whatever the repository offers and whoever changes the settings (the      *)
(* administrator, the add-on, a backup), those in the record pass the check  *)
(* of every later request and keep their values in it.                       *)
THEOREM RecordedOptionsStay == OptSpec => []OptionsStable
<1>1. OptInit => OptInv
  BY OptInitially
<1>2. OptInv /\ [OptNext]_optVars => OptInv'
  BY OptStep
<1>3. OptInv => OptionsStable
  BY RecordedIsStable
<1> QED BY <1>1, <1>2, <1>3, PTL DEF OptSpec

-----------------------------------------------------------------------------
(* The parts together, which share no state.  A step of the instance is a    *)
(* step of one part and leaves the others as they are.                       *)
LEMMA OnePartMoves ==
  ASSUME MCNext
  PROVE  /\ [TermNext]_termVars /\ [StrNext]_strVars /\ [PreNext]_preVars /\ [BakNext]_bakVars
         /\ [SrcNext]_srcVars /\ [BunNext]_bunVars /\ [InsNext]_insVars /\ [FleNext]_fleVars
         /\ [OptNext]_optVars /\ [StackNext]_stackVars
<1>1. CASE TerminalsMoves
  <2>1. TermNext
    BY <1>1, Zenon DEF TerminalsMoves, TerminalsStep, TermNext
  <2>2. /\ UNCHANGED strVars /\ UNCHANGED preVars /\ UNCHANGED bakVars /\ UNCHANGED srcVars /\ UNCHANGED bunVars
        /\ UNCHANGED insVars /\ UNCHANGED fleVars /\ UNCHANGED optVars /\ UNCHANGED stackVars
    BY <1>1, Zenon DEF TerminalsMoves, TerminalsStep
  <2> QED BY <2>1, <2>2, Zenon
<1>2. CASE StripMoves
  <2>1. StrNext
    BY <1>2, Zenon DEF StripMoves, StripStep, StrNext
  <2>2. /\ UNCHANGED termVars /\ UNCHANGED preVars /\ UNCHANGED bakVars /\ UNCHANGED srcVars /\ UNCHANGED bunVars
        /\ UNCHANGED insVars /\ UNCHANGED fleVars /\ UNCHANGED optVars /\ UNCHANGED stackVars
    BY <1>2, Zenon DEF StripMoves, StripStep
  <2> QED BY <2>1, <2>2, Zenon
<1>3. CASE PresenceMoves
  <2>1. PreNext
    BY <1>3, Zenon DEF PresenceMoves, PresenceStep, PreNext
  <2>2. /\ UNCHANGED termVars /\ UNCHANGED strVars /\ UNCHANGED bakVars /\ UNCHANGED srcVars /\ UNCHANGED bunVars
        /\ UNCHANGED insVars /\ UNCHANGED fleVars /\ UNCHANGED optVars /\ UNCHANGED stackVars
    BY <1>3, Zenon DEF PresenceMoves, PresenceStep
  <2> QED BY <2>1, <2>2, Zenon
<1>4. CASE AddonBackupsMoves
  <2>1. BakNext
    BY <1>4, Zenon DEF AddonBackupsMoves, AddonBackupsStep, BakNext, JobSteps
  <2>2. /\ UNCHANGED termVars /\ UNCHANGED strVars /\ UNCHANGED preVars /\ UNCHANGED srcVars /\ UNCHANGED bunVars
        /\ UNCHANGED insVars /\ UNCHANGED fleVars /\ UNCHANGED optVars /\ UNCHANGED stackVars
    BY <1>4, Zenon DEF AddonBackupsMoves, AddonBackupsStep
  <2> QED BY <2>1, <2>2, Zenon
<1>5. CASE AddonSourcesMoves
  <2>1. SrcNext
    BY <1>5, Zenon DEF AddonSourcesMoves, AddonSourcesStep, SrcNext
  <2>2. /\ UNCHANGED termVars /\ UNCHANGED strVars /\ UNCHANGED preVars /\ UNCHANGED bakVars /\ UNCHANGED bunVars
        /\ UNCHANGED insVars /\ UNCHANGED fleVars /\ UNCHANGED optVars /\ UNCHANGED stackVars
    BY <1>5, Zenon DEF AddonSourcesMoves, AddonSourcesStep
  <2> QED BY <2>1, <2>2, Zenon
<1>6. CASE BundlesMoves
  <2>1. BunNext
    BY <1>6, Zenon DEF BundlesMoves, BundlesStep, BunNext
  <2>2. /\ UNCHANGED termVars /\ UNCHANGED strVars /\ UNCHANGED preVars /\ UNCHANGED bakVars /\ UNCHANGED srcVars
        /\ UNCHANGED insVars /\ UNCHANGED fleVars /\ UNCHANGED optVars /\ UNCHANGED stackVars
    BY <1>6, Zenon DEF BundlesMoves, BundlesStep
  <2> QED BY <2>1, <2>2, Zenon
<1>7. CASE InstallersMoves
  <2>1. InsNext
    BY <1>7, Zenon DEF InstallersMoves, InstallersStep, InsNext
  <2>2. /\ UNCHANGED termVars /\ UNCHANGED strVars /\ UNCHANGED preVars /\ UNCHANGED bakVars /\ UNCHANGED srcVars
        /\ UNCHANGED bunVars /\ UNCHANGED fleVars /\ UNCHANGED optVars /\ UNCHANGED stackVars
    BY <1>7, Zenon DEF InstallersMoves, InstallersStep
  <2> QED BY <2>1, <2>2, Zenon
<1>8. CASE FleetMoves
  <2>1. FleNext
    BY <1>8, Zenon DEF FleetMoves, FleetStep, FleNext
  <2>2. /\ UNCHANGED termVars /\ UNCHANGED strVars /\ UNCHANGED preVars /\ UNCHANGED bakVars /\ UNCHANGED srcVars
        /\ UNCHANGED bunVars /\ UNCHANGED insVars /\ UNCHANGED optVars /\ UNCHANGED stackVars
    BY <1>8, Zenon DEF FleetMoves, FleetStep
  <2> QED BY <2>1, <2>2, Zenon
<1>9. CASE OptionsMoves
  <2>1. OptNext
    BY <1>9, Zenon DEF OptionsMoves, OptionsStep, OptNext
  <2>2. /\ UNCHANGED termVars /\ UNCHANGED strVars /\ UNCHANGED preVars /\ UNCHANGED bakVars /\ UNCHANGED srcVars
        /\ UNCHANGED bunVars /\ UNCHANGED insVars /\ UNCHANGED fleVars /\ UNCHANGED stackVars
    BY <1>9, Zenon DEF OptionsMoves, OptionsStep
  <2> QED BY <2>1, <2>2, Zenon
<1>10. CASE StackMoves
  <2>1. StackNext
    BY <1>10, Zenon DEF StackMoves, StackStep, StackNext
  <2>2. /\ UNCHANGED termVars /\ UNCHANGED strVars /\ UNCHANGED preVars /\ UNCHANGED bakVars /\ UNCHANGED srcVars
        /\ UNCHANGED bunVars /\ UNCHANGED insVars /\ UNCHANGED fleVars /\ UNCHANGED optVars
    BY <1>10, Zenon DEF StackMoves, StackStep
  <2> QED BY <2>1, <2>2, Zenon
<1> QED BY <1>1, <1>2, <1>3, <1>4, <1>5, <1>6, <1>7, <1>8, <1>9, <1>10, Zenon DEF MCNext

(* So a behaviour of the instance is one of every part.                      *)
LEMMA EachPart ==
  MCSpec => /\ TermInit /\ [][TermNext]_termVars
            /\ StrInit /\ [][StrNext]_strVars
            /\ PreInit /\ [][PreNext]_preVars
            /\ BakInit /\ [][BakNext]_bakVars
            /\ SrcInit /\ [][SrcNext]_srcVars
            /\ BunInit /\ [][BunNext]_bunVars
            /\ InsInit /\ [][InsNext]_insVars
            /\ FleInit /\ [][FleNext]_fleVars
            /\ OptInit /\ [][OptNext]_optVars
            /\ StackInit /\ [][StackNext]_stackVars
<1>1. MCInit => /\ TermInit /\ StrInit /\ PreInit /\ BakInit /\ SrcInit
                /\ BunInit /\ InsInit /\ FleInit /\ OptInit /\ StackInit
  BY Zenon DEF MCInit
<1>2. [MCNext]_vars => /\ [TermNext]_termVars /\ [StrNext]_strVars /\ [PreNext]_preVars
                       /\ [BakNext]_bakVars /\ [SrcNext]_srcVars /\ [BunNext]_bunVars
                       /\ [InsNext]_insVars /\ [FleNext]_fleVars /\ [OptNext]_optVars
                       /\ [StackNext]_stackVars
  BY OnePartMoves, Zenon DEF vars
<1> QED BY <1>1, <1>2, PTL DEF MCSpec

(* Whatever the parts do beside each other, each keeps values it is written  *)
(* for, and the appliance's configuration one that config.py validates.      *)
THEOREM UpkeepIsTyped == MCSpec => []UpkeepTypeOK
<1>1. TermInv => TermTypeOK
  BY TermInvTypes
<1>2. TermInit /\ [][TermNext]_termVars => []TermTypeOK
  BY <1>1, TermInitially, TermStep, PTL
<1>3. StripInv => StrTypeOK
  BY Zenon DEF StripInv
<1>4. StrInit /\ [][StrNext]_strVars => []StrTypeOK
  BY <1>3, StripInitially, StripKeeps, PTL
<1>5. PresenceInv => PreTypeOK
  BY Zenon DEF PresenceInv
<1>6. PreInit /\ [][PreNext]_preVars => []PreTypeOK
  BY <1>5, PresenceInitially, PresenceStepInv, PTL
<1>7. BakInv => BakTypeOK
  BY Zenon DEF BakInv
<1>8. BakInit /\ [][BakNext]_bakVars => []BakTypeOK
  BY <1>7, BakInitially, BakStep, PTL
<1>10. SrcInit /\ [][SrcNext]_srcVars => []SrcTypeOK
  BY SrcInitially, SrcStep, PTL
<1>11. BunInv => BunTypeOK
  BY Zenon DEF BunInv
<1>12. BunInit /\ [][BunNext]_bunVars => []BunTypeOK
  BY <1>11, BunInitially, BunStep, PTL
<1>13. InsInv => InsTypeOK
  BY Zenon DEF InsInv
<1>14. InsInit /\ [][InsNext]_insVars => []InsTypeOK
  BY <1>13, InsInitially, InsStep, PTL
<1>15. FleetInv => FleTypeOK
  BY Zenon DEF FleetInv
<1>16. FleInit /\ [][FleNext]_fleVars => []FleTypeOK
  BY <1>15, FleetInitially, FleetStepInv, PTL
<1>17. OptInv => OptTypeOK
  BY Zenon DEF OptInv
<1>18. OptInit /\ [][OptNext]_optVars => []OptTypeOK
  BY <1>17, OptInitially, OptStep, PTL
<1>19. StackInv => StackTypeOK
  BY Zenon DEF StackInv
<1>20. StackInit /\ [][StackNext]_stackVars => []StackTypeOK
  BY <1>19, StackInitially, StackKeeps, PTL
<1>21. /\ TermTypeOK /\ StrTypeOK /\ PreTypeOK /\ BakTypeOK /\ SrcTypeOK
       /\ BunTypeOK /\ InsTypeOK /\ FleTypeOK /\ OptTypeOK /\ StackTypeOK
       => UpkeepTypeOK
  BY DEF UpkeepTypeOK
<1> QED
  BY EachPart, <1>2, <1>4, <1>6, <1>8, <1>10, <1>12, <1>14, <1>16, <1>18, <1>20, <1>21, PTL

(* And what each part promises, it promises beside the others: terminals in  *)
(* order, one timer, presence that was seen, archives of one moment, bundles *)
(* of one instant whose apps run again, installers that select whole         *)
(* releases and keep local changes, commands that did what they are for,     *)
(* settings that stay and the services that were configured.                 *)
THEOREM UpkeepIsSafe ==
  MCSpec => /\ [](ShownInOrder /\ OneTimer /\ HandleStays /\ PresenceMeansSeen)
            /\ [](BackupIsOneMoment /\ LastMomentSurvives /\ OneErrorIsUndone)
            /\ [](RecoversOneInstant /\ ExitZeroMeansDone /\ OptionsStable /\ UpIsAsConfigured)
            /\ SuccessMeansResumed /\ SelectsWhole /\ LocalChangesStay
<1>1. TermInit /\ [][TermNext]_termVars => []ShownInOrder
  BY TermInitially, TermStep, TermInvShows, PTL
<1>2. StrInit /\ [][StrNext]_strVars => [](OneTimer /\ HandleStays)
  BY StripHasOneTimer, HandleNeverMoves, PTL DEF StrSpec
<1>3. PreInit /\ [][PreNext]_preVars => []PresenceMeansSeen
  BY PresenceIsSeen, PTL DEF PreSpec
<1>4. BakInit /\ [][BakNext]_bakVars
      => [](BackupIsOneMoment /\ LastMomentSurvives /\ OneErrorIsUndone)
  BY BakInitially, BakStep, FindsOneMoment, KeepsLastMoment, UndoesOneError, PTL
<1>5. BunInit /\ [][BunNext]_bunVars => []RecoversOneInstant /\ SuccessMeansResumed
  BY RecoveryIsOfOneInstant, SuccessIsResumed, PTL DEF BunSpec
<1>6. InsInit /\ [][InsNext]_insVars => SelectsWhole /\ LocalChangesStay
  BY SelectsOnlyWhole, LocalChangesAreKept, PTL DEF InsSpec
<1>7. FleInit /\ [][FleNext]_fleVars => []ExitZeroMeansDone
  BY CommandsDoWhatTheySay, PTL DEF FleSpec
<1>8. OptInit /\ [][OptNext]_optVars => []OptionsStable
  BY RecordedOptionsStay, PTL DEF OptSpec
<1>9. StackInit /\ [][StackNext]_stackVars => []UpIsAsConfigured
  BY UpLeavesTheConfigured, PTL DEF StackSpec
<1> QED
  BY EachPart, <1>1, <1>2, <1>3, <1>4, <1>5, <1>6, <1>7, <1>8, <1>9, PTL
=============================================================================
