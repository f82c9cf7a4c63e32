---------------------------- MODULE SettingsProofs ----------------------------
(***************************************************************************)
(* Proofs about Settings for every set of process ids and every number of  *)
(* commands and kills.                                                     *)
(***************************************************************************)
EXTENDS Settings, TLAPS

Run == [step : Steps, kind : Kinds, override : BOOLEAN,
        read : Contents, draft : Contents, preserved : Contents]

\* A step of one command leaves the others alone, and resets one that ends.
LEMMA ProceedOne ==
    ASSUME run \in [Processes -> Run], NEW p \in Processes,
           NEW next, NEW bytes, NEW written, Proceed(p, next, bytes, written)
    PROVE  /\ \A q \in Processes : q # p => run'[q] = run[q]
           /\ run'[p].step = next
           /\ next = "idle" => run'[p] = Idle
           /\ next # "idle" =>
                run'[p] = [step |-> next, kind |-> run[p].kind, override |-> run[p].override,
                           read |-> bytes, draft |-> written, preserved |-> run[p].preserved]
           /\ DOMAIN run' = Processes
  BY DEF Proceed, Run, Idle

\* With typed pieces the commands keep their type.
LEMMA ProceedTyped ==
    ASSUME run \in [Processes -> Run], NEW p \in Processes,
           NEW next \in Steps, NEW bytes, NEW written,
           next # "idle" => bytes \in Contents /\ written \in Contents,
           Proceed(p, next, bytes, written)
    PROVE  run' \in [Processes -> Run]
<1>1. Idle \in Run
  BY DEF Idle, Run, Steps, Kinds, Contents
<1>2. CASE next = "idle"
  BY <1>1, <1>2 DEF Proceed
<1>3. CASE next # "idle"
  <2>1. [run[p] EXCEPT !.step = next, !.read = bytes, !.draft = written] \in Run
    BY <1>3 DEF Run
  <2>2. QED
    BY <1>3, <2>1 DEF Proceed
<1>4. QED
  BY <1>2, <1>3

\* The steps a table leads to.
LEMMA Tables ==
    /\ \A b \in Backups : Filling[b] \in Steps /\ AfterBackup[b] \in Steps
    /\ \A b, c \in Backups : Filling[b] = Filling[c] => b = c
    /\ \A v \in 0..3 : FirstStep[v] \in Steps
  BY DEF Filling, AfterBackup, FirstStep, Backups, Steps, Current

\* A migrated document is one of the current schema; only an inline secret changes place.
LEMMA MigratedDocument ==
    ASSUME NEW doc \in Document
    PROVE  /\ Migrated(doc) \in Document /\ ~Legacy(Migrated(doc))
           /\ Migrated(doc).credential = "file" => doc.credential \in {"inline", "file"}
  BY DEF Migrated, Document, Legacy, Current

\* Configuration, backups and commands keep their type.
LEMMA TypeInvariant == SettingsTypeOK /\ InHand /\ [SettingsNext]_settingsVars => SettingsTypeOK'
<1> SUFFICES ASSUME SettingsTypeOK, InHand, [SettingsNext]_settingsVars PROVE SettingsTypeOK'
  OBVIOUS
<1> USE SettingsAssumption, FilesAssumption
<1>0. run \in [Processes -> Run] /\ Default \in Document /\ Document \subseteq Contents
      /\ {Absent, Partial} \subseteq Contents
  BY DEF SettingsTypeOK, Run, Default, Document, Contents, Current
<1>t. /\ {"idle", "load", "secret", "store", "store rename", "write", "rename", "resolve",
          "install", "binary", "pick", "keep"} \subseteq Steps /\ Backups \subseteq Steps
  BY DEF Steps
<1>r. ASSUME run' \in [Processes -> Run],
             config' \in Contents, backup' \in [Backups -> Contents], original' \in Contents,
             secret' \in BOOLEAN, configTemps' \subseteq Processes, secretTemps' \subseteq Processes,
             started' \in 0..MaxCommands, kills' \in 0..MaxKills
      PROVE SettingsTypeOK'
  BY <1>r DEF SettingsTypeOK, Run
<1>1. ASSUME NEW p \in Processes, NEW command \in Kinds, NEW env \in BOOLEAN, Begin(p, command, env)
      PROVE SettingsTypeOK'
  <2>1. run' \in [Processes -> Run]
    BY <1>0, <1>1, <1>t DEF Begin, Idle, Run, SettingsTypeOK, Kinds
  <2>2. QED
    BY <1>1, <1>r, <2>1 DEF Begin, SettingsTypeOK, fileVars
<1>2. ASSUME NEW p \in Processes, Load(p) PROVE SettingsTypeOK'
  <2> DEFINE bytes == IF config = Absent THEN Default ELSE config
  <2>1. bytes \in Contents /\ (bytes # Partial => bytes \in Document /\ bytes.version \in 0..3)
    BY <1>0 DEF SettingsTypeOK, Contents, Document
  <2>2. (IF bytes = Partial THEN "idle" ELSE FirstStep[bytes.version]) \in Steps
    BY <2>1, <1>t, Tables
  <2>3. run' \in [Processes -> Run]
    <3>1. run[p].draft \in Contents
      BY <1>0 DEF Run
    <3> HIDE DEF bytes
    <3>2. Proceed(p, IF bytes = Partial THEN "idle" ELSE FirstStep[bytes.version], bytes, run[p].draft)
      BY <1>2 DEF Load, Reads, bytes
    <3>3. QED
      BY <1>0, <2>1, <2>2, <3>1, <3>2, ProceedTyped
  <2>4. QED
    BY <1>2, <1>r, <2>3 DEF Load, SettingsTypeOK, fileVars, countVars
<1>3. ASSUME NEW p \in Processes, MigrateSecret(p) PROVE SettingsTypeOK'
  <2>1. Migrated(run[p].read) \in Document
    <3>1. run[p].read \in Document
      BY <1>3 DEF MigrateSecret, InHand, Suits
    <3>2. QED
      BY <3>1, MigratedDocument
  <2>2. run[p].read \in Contents
    BY <1>0 DEF Run
  <2>3. run' \in [Processes -> Run]
    BY <1>0, <1>3, <1>t, <2>1, <2>2, ProceedTyped DEF MigrateSecret, Drafts
  <2>4. QED
    BY <1>3, <1>r, <2>3 DEF MigrateSecret, SettingsTypeOK, fileVars, countVars
<1>4. ASSUME NEW p \in Processes, CreateSecret(p) \/ RenameSecret(p) \/ Write(p) \/ Kill(p)
      PROVE SettingsTypeOK'
  <2>1. run[p].read \in Contents /\ run[p].draft \in Contents
    BY <1>0 DEF Run
  <2>2. run' \in [Processes -> Run]
    BY <1>0, <1>4, <1>t, <2>1, ProceedTyped DEF CreateSecret, RenameSecret, Write, Kill, GoTo
  <2>3. CASE CreateSecret(p) \/ RenameSecret(p) \/ Write(p)
    BY <2>2, <2>3, <1>r DEF CreateSecret, RenameSecret, Write, SettingsTypeOK, countVars
  <2>4. CASE Kill(p)
    <3>1. kills' \in 0..MaxKills
      BY <2>4 DEF Kill, SettingsTypeOK
    <3>2. QED
      BY <2>2, <2>4, <3>1, <1>r DEF Kill, SettingsTypeOK, fileVars
  <2>5. QED
    BY <1>4, <2>3, <2>4
<1>5. ASSUME NEW p \in Processes, NEW b \in Backups, CreateBackup(p, b) \/ FillBackup(p, b)
      PROVE SettingsTypeOK'
  <2>1. run[p].read \in Contents /\ run[p].draft \in Contents
    BY <1>0 DEF Run
  <2>2. run' \in [Processes -> Run]
    BY <1>0, <1>5, <1>t, <2>1, Tables, ProceedTyped DEF CreateBackup, FillBackup, GoTo
  <2>3. QED
    BY <1>0, <1>5, <1>r, <2>1, <2>2 DEF CreateBackup, FillBackup, SettingsTypeOK, countVars
<1>6. ASSUME NEW p \in Processes, Rename(p) PROVE SettingsTypeOK'
  <2>1. run[p].read \in Contents /\ run[p].draft \in Contents
    BY <1>0 DEF Run
  <2>2. run' \in [Processes -> Run]
    BY <1>0, <1>6, <1>t, <2>1, ProceedTyped DEF Rename, Reads
  <2>3. QED
    BY <1>6, <1>r, <2>1, <2>2 DEF Rename, SettingsTypeOK, countVars
<1>7. ASSUME NEW p \in Processes, Resolve(p) PROVE SettingsTypeOK'
  <2>1. run[p].read \in Contents /\ run[p].draft \in Contents
    BY <1>0 DEF Run
  <2>2. ASSUME NEW c \in Credentials(p)
        PROVE [Loaded(p) EXCEPT !.credential = c, !.writer = started] \in Contents
    <3>1. run[p].read \in Document
      BY <1>7 DEF Resolve, InHand, Suits
    <3>2. c \in {"none", "inline", "file", "environment"}
      BY <2>2, <3>1 DEF Credentials, Loaded, Document
    <3>3. started \in 0..MaxCommands
      BY DEF SettingsTypeOK
    <3>4. [Loaded(p) EXCEPT !.credential = c, !.writer = started] \in Document
      BY <3>1, <3>2, <3>3 DEF Loaded, Document
    <3>5. QED
      BY <1>0, <3>4
  <2>3. AfterResolve(p) \in Steps
    BY <1>t DEF AfterResolve
  <2>4. run' \in [Processes -> Run]
    <3>1. CASE GoTo(p, "idle")
      BY <1>0, <1>t, <3>1, ProceedTyped DEF GoTo
    <3>2. ASSUME NEW c \in Credentials(p),
                 Drafts(p, AfterResolve(p), [Loaded(p) EXCEPT !.credential = c, !.writer = started])
          PROVE run' \in [Processes -> Run]
      BY <1>0, <2>1, <2>2, <2>3, <3>2, ProceedTyped DEF Drafts
    <3>3. QED
      BY <1>7, <3>1, <3>2 DEF Resolve
  <2>5. QED
    BY <1>7, <1>r, <2>4 DEF Resolve, SettingsTypeOK, fileVars, countVars
<1>8. ASSUME NEW p \in Processes, Install(p) \/ Binary(p) \/ Pick(p) \/ Keep(p)
      PROVE SettingsTypeOK'
  <2>1. /\ run[p].read \in Contents /\ run[p].draft \in Contents /\ run[p].preserved \in Contents
        /\ config \in Contents /\ \A b \in Backups : backup[b] \in Contents
        /\ "pre-v1" \in Backups /\ "pre-v2" \in Backups /\ "pre-rollback-v2" \in Backups
    BY <1>0 DEF Run, SettingsTypeOK, Backups
  <2>2. CASE Install(p)
    <3>1. run' \in [Processes -> Run]
      BY <1>0, <1>t, <2>1, <2>2, ProceedTyped DEF Install, GoTo
    <3>2. QED
      BY <1>0, <2>2, <1>r, <3>1 DEF Install, SettingsTypeOK, countVars
  <2>3. CASE Binary(p)
    <3>1. run' \in [Processes -> Run]
      BY <1>0, <1>t, <2>1, <2>3, ProceedTyped DEF Binary, GoTo, Drafts
    <3>2. QED
      BY <1>0, <2>3, <1>r, <3>1 DEF Binary, SettingsTypeOK, countVars
  <2>4. CASE Pick(p)
    <3> DEFINE chosen == IF backup["pre-v2"] # Absent THEN backup["pre-v2"] ELSE backup["pre-v1"]
    <3>1. chosen \in Contents /\ Proceed(p, IF chosen = Absent THEN "idle" ELSE "keep", run[p].read, chosen)
      BY <2>1, <2>4 DEF Pick, Drafts
    <3> HIDE DEF chosen
    <3>2. run' \in [Processes -> Run]
      BY <1>0, <1>t, <2>1, <3>1, ProceedTyped
    <3>3. QED
      BY <2>4, <1>r, <3>2 DEF Pick, SettingsTypeOK, fileVars, countVars
  <2>5. CASE Keep(p)
    <3>1. run' \in [Processes -> Run]
      BY <1>0, <1>t, <2>1, <2>5, ProceedTyped DEF Keep, Reads
    <3>2. QED
      BY <2>5, <1>r, <3>1 DEF Keep, SettingsTypeOK, fileVars, countVars
  <2>6. QED
    BY <1>8, <2>2, <2>3, <2>4, <2>5
<1>9. CASE UNCHANGED settingsVars
  BY <1>9 DEF settingsVars, fileVars, countVars, SettingsTypeOK
<1>10. QED
  BY <1>1, <1>2, <1>3, <1>4, <1>5, <1>6, <1>7, <1>8, <1>9 DEF SettingsNext

\* What a command has in hand changes only by its own steps.
LEMMA HandStep ==
    ASSUME run \in [Processes -> Run], InHand, NEW p \in Processes,
           NEW next, NEW bytes, NEW written, Proceed(p, next, bytes, written),
           next = "idle" \/ Suits(next, run[p].kind, bytes, written)
    PROVE  InHand'
<1>1. Suits(run'[p].step, run'[p].kind, run'[p].read, run'[p].draft)
  <2>1. CASE next = "idle"
    <3>1. run'[p].step = "idle"
      BY <2>1, ProceedOne
    <3>2. QED
      BY <3>1 DEF Suits, Moving
  <2>2. CASE next # "idle"
    <3>1. /\ run'[p].step = next /\ run'[p].kind = run[p].kind
          /\ run'[p].read = bytes /\ run'[p].draft = written
      <4>1. run'[p] = [step |-> next, kind |-> run[p].kind, override |-> run[p].override,
                       read |-> bytes, draft |-> written, preserved |-> run[p].preserved]
        BY <2>2, ProceedOne
      <4>2. QED
        BY <4>1
    <3>2. QED
      BY <2>2, <3>1
  <2>3. QED
    BY <2>1, <2>2
<1>2. \A q \in Processes : q # p => run'[q] = run[q]
  BY ProceedOne
<1>3. QED
  BY <1>1, <1>2 DEF InHand

\* What a command has in hand suits its step.
LEMMA InHandInvariant == SettingsTypeOK /\ InHand /\ [SettingsNext]_settingsVars => InHand'
<1> SUFFICES ASSUME SettingsTypeOK, InHand, [SettingsNext]_settingsVars PROVE InHand'
  OBVIOUS
<1> USE SettingsAssumption, FilesAssumption
<1>0. run \in [Processes -> Run]
  BY DEF SettingsTypeOK, Run
<1>1. ASSUME NEW p \in Processes, NEW command \in Kinds, NEW env \in BOOLEAN, Begin(p, command, env)
      PROVE InHand'
  <2>1. Suits(run'[p].step, run'[p].kind, run'[p].read, run'[p].draft)
    BY <1>0, <1>1 DEF Begin, Idle, Suits, Moving
  <2>2. \A q \in Processes : q # p => run'[q] = run[q]
    BY <1>0, <1>1 DEF Begin
  <2>3. QED
    BY <2>1, <2>2 DEF InHand
<1>2. ASSUME NEW p \in Processes, Load(p) PROVE InHand'
  <2> DEFINE bytes == IF config = Absent THEN Default ELSE config
             next == IF bytes = Partial THEN "idle" ELSE FirstStep[bytes.version]
  <2>1. Proceed(p, next, bytes, run[p].draft)
    BY <1>2 DEF Load, Reads
  <2>2. bytes # Partial => bytes \in Document /\ bytes.version \in 0..3
    BY DEF SettingsTypeOK, Contents, Document, Default, Current
  <2>3. /\ next \in {"idle", "pre-v1", "pre-v2", "resolve"}
        /\ next # "idle" => bytes \in Document
        /\ next = "resolve" => ~Legacy(bytes)
    BY <2>2 DEF FirstStep, Legacy, Current
  <2> HIDE DEF bytes, next
  <2>4. next = "idle" \/ Suits(next, run[p].kind, bytes, run[p].draft)
    BY <2>3 DEF Suits, Moving
  <2>5. QED
    BY <1>0, <2>1, <2>4, HandStep
<1>3. ASSUME NEW p \in Processes, MigrateSecret(p) PROVE InHand'
  <2> DEFINE next == IF run[p].read.credential = "inline" THEN "store" ELSE "write"
  <2>1. Proceed(p, next, run[p].read, Migrated(run[p].read))
    BY <1>3 DEF MigrateSecret, Drafts
  <2>2. Migrated(run[p].read) \in Document /\ ~Legacy(Migrated(run[p].read))
    BY <1>3, MigratedDocument DEF MigrateSecret, InHand, Suits
  <2>3. next \in {"store", "write"}
    OBVIOUS
  <2> HIDE DEF next
  <2>4. Suits(next, run[p].kind, run[p].read, Migrated(run[p].read))
    BY <2>2, <2>3 DEF Suits, Moving
  <2>5. QED
    BY <1>0, <2>1, <2>4, HandStep
<1>4. ASSUME NEW p \in Processes, CreateSecret(p) \/ RenameSecret(p) \/ Write(p) \/ Kill(p)
      PROVE InHand'
  <2>1. PICK next \in {"idle", "store rename", "write", "rename"} :
          /\ Proceed(p, next, run[p].read, run[p].draft)
          /\ next # "idle" => run[p].step \in Moving
    BY <1>4 DEF CreateSecret, RenameSecret, Write, Kill, GoTo, Moving
  <2>2. next = "idle" \/ Suits(next, run[p].kind, run[p].read, run[p].draft)
    BY <2>1 DEF InHand, Suits, Moving
  <2>3. QED
    BY <1>0, <2>1, <2>2, HandStep
<1>5. ASSUME NEW p \in Processes, NEW b \in Backups, CreateBackup(p, b) \/ FillBackup(p, b)
      PROVE InHand'
  <2>1. PICK next \in {"idle", Filling[b], AfterBackup[b]} :
          /\ Proceed(p, next, run[p].read, run[p].draft)
          /\ run[p].step \in {b, Filling[b]}
    BY <1>5 DEF CreateBackup, FillBackup, GoTo
  <2>2. next = "idle" \/ Suits(next, run[p].kind, run[p].read, run[p].draft)
    BY <2>1 DEF InHand, Suits, Moving, Filling, AfterBackup, Backups
  <2>3. QED
    BY <1>0, <2>1, <2>2, HandStep
<1>6. ASSUME NEW p \in Processes, Rename(p) PROVE InHand'
  <2> DEFINE next == IF Migrating(p) THEN "resolve"
                     ELSE IF run[p].kind = "setup" /\ run[p].draft # run[p].preserved THEN "binary"
                     ELSE "idle"
             bytes == IF Migrating(p) THEN run[p].draft ELSE run[p].read
  <2>1. Proceed(p, next, bytes, run[p].draft)
    BY <1>6 DEF Rename, Reads
  <2>2. /\ next \in {"resolve", "binary", "idle"}
        /\ next = "resolve" => bytes \in Document /\ ~Legacy(bytes)
        /\ next = "binary" => ~Migrating(p) /\ bytes = run[p].read
    BY <1>6 DEF Rename, InHand, Suits, Moving, Migrating
  <2> HIDE DEF next, bytes
  <2>3. next = "idle" \/ Suits(next, run[p].kind, bytes, run[p].draft)
    BY <2>2 DEF Suits, Moving, Migrating
  <2>4. QED
    BY <1>0, <2>1, <2>3, HandStep
<1>7. ASSUME NEW p \in Processes, Resolve(p) PROVE InHand'
  <2>1. run[p].read \in Document /\ ~Legacy(run[p].read)
    BY <1>7 DEF Resolve, InHand, Suits
  <2>2. ASSUME NEW c \in Credentials(p),
               Drafts(p, AfterResolve(p), [Loaded(p) EXCEPT !.credential = c, !.writer = started])
        PROVE InHand'
    <3> DEFINE next == AfterResolve(p)
               doc == [Loaded(p) EXCEPT !.credential = c, !.writer = started]
    <3>1. Proceed(p, next, run[p].read, doc) /\ next \in {"store", "install", "write"}
      BY <2>2 DEF Drafts, AfterResolve
    <3>2. doc \in Document
      <4>1. c \in {"none", "inline", "file", "environment"}
        BY <2>2, <2>1 DEF Credentials, Loaded, Document
      <4>2. started \in 0..MaxCommands
        BY DEF SettingsTypeOK
      <4>3. QED
        BY <2>1, <4>1, <4>2 DEF Loaded, Document
    <3> HIDE DEF next, doc
    <3>3. Suits(next, run[p].kind, run[p].read, doc)
      BY <2>1, <3>1, <3>2 DEF Suits, Moving
    <3>4. QED
      BY <1>0, <3>1, <3>3, HandStep
  <2>3. CASE GoTo(p, "idle")
    BY <1>0, <2>3, HandStep DEF GoTo
  <2>4. QED
    BY <1>7, <2>2, <2>3 DEF Resolve
<1>8. ASSUME NEW p \in Processes, Install(p) \/ Binary(p) PROVE InHand'
  <2>1. PICK next, written :
          /\ next \in {"idle", "write"}
          /\ Proceed(p, next, run[p].read, written)
          /\ run[p].step = "install" => written = run[p].draft
          /\ run[p].step \in {"install", "binary"}
    BY <1>8 DEF Install, Binary, GoTo, Drafts
  <2>2. next = "idle" \/ Suits(next, run[p].kind, run[p].read, written)
    BY <2>1 DEF InHand, Suits, Moving
  <2>3. QED
    BY <1>0, <2>1, <2>2, HandStep
<1>9. ASSUME NEW p \in Processes, Pick(p) \/ Keep(p) PROVE InHand'
  <2>1. PICK next, bytes, written :
          /\ next \in {"idle", "keep", "write", "pre-rollback-v2"}
          /\ Proceed(p, next, bytes, written)
          /\ run[p].step \in {"pick", "keep"}
    BY <1>9 DEF Pick, Keep, Drafts, Reads
  <2>2. next = "idle" \/ Suits(next, run[p].kind, bytes, written)
    BY <2>1 DEF InHand, Suits, Moving
  <2>3. QED
    BY <1>0, <2>1, <2>2, HandStep
<1>10. CASE UNCHANGED settingsVars
  BY <1>10 DEF settingsVars, InHand
<1>11. QED
  BY <1>1, <1>2, <1>3, <1>4, <1>5, <1>6, <1>7, <1>8, <1>9, <1>10 DEF SettingsNext

Fills == {Filling[b] : b \in Backups}

\* What is not about backups does not change them and begins no filling.
LEMMA OtherSteps ==
    ASSUME SettingsTypeOK, NEW p \in Processes,
           \/ Load(p) \/ MigrateSecret(p) \/ CreateSecret(p) \/ RenameSecret(p) \/ Write(p)
           \/ Rename(p) \/ Resolve(p) \/ Install(p) \/ Binary(p) \/ Pick(p) \/ Keep(p) \/ Kill(p)
    PROVE  /\ \E next, bytes, written : Proceed(p, next, bytes, written) /\ next \notin Fills
           /\ backup' = backup /\ original' = original
<1> USE SettingsAssumption, FilesAssumption
<1>1. /\ \A v \in 0..3 : FirstStep[v] \notin Fills
      /\ Fills \cap {"idle", "store", "store rename", "write", "rename", "resolve", "install",
                    "binary", "keep", "pre-rollback-v2"} = {}
  BY DEF Fills, Filling, FirstStep, Backups, Current
<1>2. CASE Load(p)
  <2> DEFINE bytes == IF config = Absent THEN Default ELSE config
             next == IF bytes = Partial THEN "idle" ELSE FirstStep[bytes.version]
  <2>1. Proceed(p, next, bytes, run[p].draft)
    BY <1>2 DEF Load, Reads
  <2>2. bytes # Partial => bytes.version \in 0..3
    BY DEF SettingsTypeOK, Contents, Document, Default, Current
  <2>3. next \notin Fills
    BY <1>1, <2>2
  <2>4. QED
    BY <1>2, <2>1, <2>3 DEF Load, fileVars, countVars
<1>3. CASE Resolve(p)
  BY <1>1, <1>3 DEF Resolve, Drafts, GoTo, AfterResolve, fileVars, countVars
<1>4. CASE Rename(p)
  BY <1>1, <1>4 DEF Rename, Reads, countVars
<1>5. CASE MigrateSecret(p) \/ Pick(p) \/ Keep(p)
  BY <1>1, <1>5 DEF MigrateSecret, Pick, Keep, Drafts, Reads, fileVars, countVars
<1>6. CASE CreateSecret(p) \/ RenameSecret(p) \/ Write(p)
  BY <1>1, <1>6 DEF CreateSecret, RenameSecret, Write, GoTo, countVars
<1>7. CASE Install(p) \/ Binary(p) \/ Kill(p)
  BY <1>1, <1>7 DEF Install, Binary, Kill, GoTo, Drafts, fileVars, countVars
<1>8. QED
  BY <1>2, <1>3, <1>4, <1>5, <1>6, <1>7

\* A backup that is not complete has one process that fills it, or nobody.
LEMMA FilledInvariant ==
    SettingsTypeOK /\ FilledByOne /\ [SettingsNext]_settingsVars => FilledByOne'
<1> SUFFICES ASSUME SettingsTypeOK, FilledByOne, [SettingsNext]_settingsVars PROVE FilledByOne'
  OBVIOUS
<1> USE SettingsAssumption, FilesAssumption
<1>0. run \in [Processes -> Run] /\ backup \in [Backups -> Contents]
  BY DEF SettingsTypeOK, Run
<1>1. ASSUME NEW p \in Processes, NEW command \in Kinds, NEW env \in BOOLEAN, Begin(p, command, env)
      PROVE FilledByOne'
  <2>1. run'[p].step \in {"pick", "load"} /\ backup' = backup
    BY <1>0, <1>1 DEF Begin, Idle, fileVars
  <2>2. \A b \in Backups : Filling[b] \notin {"pick", "load"}
    BY DEF Filling, Backups
  <2>3. \A q \in Processes : q # p => run'[q] = run[q]
    BY <1>0, <1>1 DEF Begin
  <2>4. QED
    BY <2>1, <2>2, <2>3 DEF FilledByOne
<1>2. ASSUME NEW p \in Processes,
             \/ Load(p) \/ MigrateSecret(p) \/ CreateSecret(p) \/ RenameSecret(p) \/ Write(p)
             \/ Rename(p) \/ Resolve(p) \/ Install(p) \/ Binary(p) \/ Pick(p) \/ Keep(p) \/ Kill(p)
      PROVE FilledByOne'
  <2>1. PICK next, bytes, written : Proceed(p, next, bytes, written) /\ next \notin Fills
    BY <1>2, OtherSteps
  <2>2. backup' = backup
    BY <1>2, OtherSteps
  <2>3. run'[p].step \notin Fills /\ \A q \in Processes : q # p => run'[q] = run[q]
    BY <1>0, <2>1, ProceedOne
  <2>4. QED
    BY <2>2, <2>3 DEF FilledByOne, Fills
<1>3. ASSUME NEW p \in Processes, NEW b \in Backups, CreateBackup(p, b) PROVE FilledByOne'
  <2>1. CASE backup[b] = Absent
    <3>1. /\ backup' = [backup EXCEPT ![b] = Partial]
          /\ Proceed(p, Filling[b], run[p].read, run[p].draft)
      BY <1>3, <2>1 DEF CreateBackup, GoTo
    <3>2. \A q \in Processes : run[q].step # Filling[b]
      BY <2>1 DEF FilledByOne
    <3>3. run'[p].step = Filling[b] /\ \A q \in Processes : q # p => run'[q] = run[q]
      BY <1>0, <3>1, ProceedOne
    <3>4. QED
      BY <1>0, <3>1, <3>2, <3>3, Tables DEF FilledByOne
  <2>2. CASE backup[b] # Absent
    <3>1. PICK next \in {"idle", AfterBackup[b]} : Proceed(p, next, run[p].read, run[p].draft)
      BY <1>3, <2>2 DEF CreateBackup, GoTo
    <3>2. next \notin Fills
      BY <3>1 DEF Fills, Filling, AfterBackup, Backups
    <3>3. run'[p].step \notin Fills /\ \A q \in Processes : q # p => run'[q] = run[q]
      BY <1>0, <3>1, <3>2, ProceedOne
    <3>4. backup' = backup
      BY <1>3, <2>2 DEF CreateBackup
    <3>5. QED
      BY <3>3, <3>4 DEF FilledByOne, Fills
  <2>3. QED
    BY <2>1, <2>2
<1>4. ASSUME NEW p \in Processes, NEW b \in Backups, FillBackup(p, b) PROVE FilledByOne'
  <2>1. PICK next \in {"idle", AfterBackup[b]} : Proceed(p, next, run[p].read, run[p].draft)
    BY <1>4 DEF FillBackup, GoTo
  <2>2. next \notin Fills
    BY <2>1 DEF Fills, Filling, AfterBackup, Backups
  <2>3. run'[p].step \notin Fills /\ \A q \in Processes : q # p => run'[q] = run[q]
    BY <1>0, <2>1, <2>2, ProceedOne
  <2>4. /\ run[p].step = Filling[b]
        /\ backup' \in {backup, [backup EXCEPT ![b] = run[p].read]}
    BY <1>4 DEF FillBackup
  <2>5. \A c \in Backups : c # b => backup'[c] = backup[c]
    BY <1>0, <2>4
  <2>6. \A q \in Processes : q # p => run[q].step # Filling[b]
    BY <2>4 DEF FilledByOne
  <2>7. QED
    BY <2>3, <2>5, <2>6 DEF FilledByOne, Fills
<1>5. CASE UNCHANGED settingsVars
  BY <1>5 DEF settingsVars, fileVars, FilledByOne
<1>6. QED
  BY <1>1, <1>2, <1>3, <1>4, <1>5 DEF SettingsNext

\* A complete backup stays what it is.
LEMMA BackupStays ==
    ASSUME SettingsTypeOK, FilledByOne, [SettingsNext]_settingsVars, NEW c \in Backups,
           backup[c] \in Document
    PROVE  backup'[c] = backup[c]
<1> USE FilesAssumption
<1>0. backup \in [Backups -> Contents] /\ backup[c] # Absent /\ backup[c] # Partial
  BY DEF SettingsTypeOK
<1>1. ASSUME NEW p \in Processes, NEW command \in Kinds, NEW env \in BOOLEAN, Begin(p, command, env)
      PROVE backup' = backup
  BY <1>1 DEF Begin, fileVars
<1>2. ASSUME NEW p \in Processes,
             \/ Load(p) \/ MigrateSecret(p) \/ CreateSecret(p) \/ RenameSecret(p) \/ Write(p)
             \/ Rename(p) \/ Resolve(p) \/ Install(p) \/ Binary(p) \/ Pick(p) \/ Keep(p) \/ Kill(p)
      PROVE backup' = backup
  BY <1>2, OtherSteps
<1>3. ASSUME NEW p \in Processes, NEW b \in Backups, CreateBackup(p, b)
      PROVE backup'[c] = backup[c]
  BY <1>0, <1>3 DEF CreateBackup
<1>4. ASSUME NEW p \in Processes, NEW b \in Backups, FillBackup(p, b)
      PROVE backup'[c] = backup[c]
  <2>1. b # c
    BY <1>0, <1>4 DEF FillBackup, FilledByOne
  <2>2. QED
    BY <1>0, <1>4, <2>1 DEF FillBackup
<1>5. CASE UNCHANGED settingsVars
  BY <1>5 DEF settingsVars, fileVars
<1>6. QED
  BY <1>1, <1>2, <1>3, <1>4, <1>5 DEF SettingsNext

\* Nobody changes what the configuration was at the beginning.
LEMMA OriginalFixed == [SettingsNext]_settingsVars => original' = original
<1>1. ASSUME NEW p \in Processes, NEW command \in Kinds, NEW env \in BOOLEAN, Begin(p, command, env)
      PROVE original' = original
  BY <1>1 DEF Begin
<1>2. ASSUME NEW p \in Processes, NEW b \in Backups, CreateBackup(p, b) \/ FillBackup(p, b)
      PROVE original' = original
  BY <1>2 DEF CreateBackup, FillBackup, countVars
<1>3. ASSUME NEW p \in Processes,
             \/ Load(p) \/ MigrateSecret(p) \/ CreateSecret(p) \/ RenameSecret(p) \/ Write(p)
             \/ Rename(p) \/ Resolve(p) \/ Install(p) \/ Binary(p) \/ Pick(p) \/ Keep(p) \/ Kill(p)
      PROVE original' = original
  BY <1>3 DEF Load, MigrateSecret, CreateSecret, RenameSecret, Write, Rename, Resolve, Install,
     Binary, Pick, Keep, Kill, countVars
<1>4. CASE UNCHANGED settingsVars
  BY <1>4 DEF settingsVars, countVars
<1>5. QED
  BY <1>1, <1>2, <1>3, <1>4 DEF SettingsNext

Early == {"idle", "load", "pick", "keep"}
Reading == Backups \cup Fills

\* Before any backup has the original, no step loses it.
LEMMA NotPastStep ==
    ASSUME SettingsTypeOK, [SettingsNext]_settingsVars,
           Legacy(original), config = original, \A p \in Processes : NotPast(p)
    PROVE  \/ \E b \in Backups : backup'[b] = original
           \/ config' = original /\ \A p \in Processes : NotPast(p)'
<1> USE SettingsAssumption, FilesAssumption
<1> DEFINE Goal == \/ \E b \in Backups : backup'[b] = original
                   \/ config' = original /\ \A p \in Processes : NotPast(p)'
<1>0. run \in [Processes -> Run] /\ backup \in [Backups -> Contents]
  BY DEF SettingsTypeOK, Run
<1>v. original \in Document /\ original.version \in {0, 1}
  BY DEF Legacy, Current, Document
<1>n. \A p \in Processes : run[p].step \in Early \/ (run[p].step \in Reading /\ run[p].read = original)
  BY DEF NotPast, Early, Reading, Fills
<1>o. original' = original
  BY OriginalFixed
<1>d. Early \cap Reading = {}
  BY DEF Early, Reading, Fills, Filling, Backups
<1>g. ASSUME NEW p \in Processes, \A q \in Processes : q # p => run'[q] = run[q], config' = config,
             run'[p].step \in Early \/ (run'[p].step \in Reading /\ run'[p].read = original)
      PROVE Goal
  <2>1. NotPast(p)'
    BY <1>g, <1>o DEF NotPast, Early, Reading, Fills
  <2>2. ASSUME NEW q \in Processes, q # p PROVE NotPast(q)'
    BY <1>g, <1>o, <2>2 DEF NotPast
  <2>3. QED
    BY <1>g, <2>1, <2>2
<1>p. ASSUME NEW p \in Processes, NEW next, NEW bytes, NEW written,
             Proceed(p, next, bytes, written), config' = config,
             next \in Early \/ (next \in Reading /\ bytes = original)
      PROVE Goal
  <2> HIDE DEF Goal
  <2>1. \A q \in Processes : q # p => run'[q] = run[q]
    BY <1>0, <1>p, ProceedOne
  <2>2. run'[p].step = next
    BY <1>0, <1>p, ProceedOne
  <2>3. CASE next \in Early
    BY <1>p, <1>g, <2>1, <2>2, <2>3
  <2>4. CASE next \in Reading /\ bytes = original
    <3>1. next # "idle"
      BY <2>4, <1>d DEF Early
    <3>2. run'[p] = [step |-> next, kind |-> run[p].kind, override |-> run[p].override,
                     read |-> bytes, draft |-> written, preserved |-> run[p].preserved]
      BY <1>0, <1>p, <3>1, ProceedOne
    <3>3. run'[p].read = original
      BY <2>4, <3>2
    <3>4. QED
      BY <1>p, <1>g, <2>1, <2>2, <2>4, <3>3
  <2>5. QED
    BY <1>p, <2>3, <2>4
<1>1. ASSUME NEW p \in Processes, NEW command \in Kinds, NEW env \in BOOLEAN, Begin(p, command, env)
      PROVE Goal
  <2>1. run'[p].step \in Early /\ config' = config
    BY <1>0, <1>1 DEF Begin, Idle, fileVars, Early
  <2>2. \A q \in Processes : q # p => run'[q] = run[q]
    BY <1>0, <1>1 DEF Begin
  <2> HIDE DEF Goal
  <2>3. QED
    BY <1>g, <2>1, <2>2
<1>2. ASSUME NEW p \in Processes, Load(p) PROVE Goal
  <2>1. config # Absent /\ config # Partial /\ config' = config
    BY <1>v, <1>2 DEF Load, fileVars
  <2>2. Proceed(p, FirstStep[original.version], original, run[p].draft)
    BY <1>2, <2>1 DEF Load, Reads
  <2>3. FirstStep[original.version] \in Reading
    BY <1>v DEF FirstStep, Backups, Current, Reading
  <2> HIDE DEF Goal
  <2>4. QED
    BY <1>p, <2>1, <2>2, <2>3
<1>3. ASSUME NEW p \in Processes, NEW b \in Backups, CreateBackup(p, b) PROVE Goal
  <2>1. run[p].read = original
    BY <1>n, <1>d, <1>3 DEF CreateBackup, Reading
  <2>2. CASE backup[b] = original
    <3>1. backup' = backup
      BY <1>v, <1>3, <2>2 DEF CreateBackup
    <3>2. QED
      BY <2>2, <3>1
  <2>3. CASE backup[b] # original
    <3>1. PICK next \in {"idle", Filling[b]} : Proceed(p, next, original, run[p].draft)
      BY <1>3, <2>1, <2>3 DEF CreateBackup, GoTo
    <3>2. config' = config /\ (next \in Early \/ next \in Reading)
      BY <1>3, <3>1 DEF CreateBackup, Fills, Early, Reading
    <3> HIDE DEF Goal
    <3>3. QED
      BY <1>p, <3>1, <3>2
  <2>4. QED
    BY <2>2, <2>3
<1>4. ASSUME NEW p \in Processes, NEW b \in Backups, FillBackup(p, b) PROVE Goal
  <2>1. run[p].read = original
    BY <1>n, <1>d, <1>4 DEF FillBackup, Reading, Fills
  <2>2. CASE backup' = [backup EXCEPT ![b] = run[p].read]
    BY <1>0, <2>1, <2>2
  <2>3. CASE GoTo(p, "idle")
    <3>1. config' = config /\ "idle" \in Early
      BY <1>4 DEF FillBackup, Early
    <3> HIDE DEF Goal
    <3>2. QED
      BY <1>p, <2>3, <3>1 DEF GoTo
  <2>4. QED
    BY <1>4, <2>2, <2>3 DEF FillBackup
<1>5. ASSUME NEW p \in Processes, Pick(p) PROVE Goal
  <2> DEFINE chosen == IF backup["pre-v2"] # Absent THEN backup["pre-v2"] ELSE backup["pre-v1"]
             next == IF chosen = Absent THEN "idle" ELSE "keep"
  <2>1. Proceed(p, next, run[p].read, chosen) /\ config' = config /\ next \in Early
    BY <1>5 DEF Pick, Drafts, fileVars, Early
  <2> HIDE DEF chosen, next, Goal
  <2>2. QED
    BY <1>p, <2>1
<1>6. ASSUME NEW p \in Processes, Keep(p) PROVE Goal
  <2>1. Proceed(p, "pre-rollback-v2", original, run[p].draft) /\ config' = config
    BY <1>v, <1>6 DEF Keep, Reads, fileVars
  <2>2. "pre-rollback-v2" \in Reading
    BY DEF Backups, Reading
  <2> HIDE DEF Goal
  <2>3. QED
    BY <1>p, <2>1, <2>2
<1>7. ASSUME NEW p \in Processes, Kill(p) PROVE Goal
  <2>1. Proceed(p, "idle", run[p].read, run[p].draft) /\ config' = config
    BY <1>7 DEF Kill, GoTo, fileVars
  <2>2. "idle" \in Early
    BY DEF Early
  <2> HIDE DEF Goal
  <2>3. QED
    BY <1>p, <2>1, <2>2
<1>8. ASSUME NEW p \in Processes,
             \/ MigrateSecret(p) \/ CreateSecret(p) \/ RenameSecret(p) \/ Write(p)
             \/ Rename(p) \/ Resolve(p) \/ Install(p) \/ Binary(p)
      PROVE FALSE
  <2>1. run[p].step \in {"secret", "store", "store rename", "write", "rename", "resolve", "install", "binary"}
    BY <1>8 DEF MigrateSecret, CreateSecret, RenameSecret, Write, Rename, Resolve, Install, Binary
  <2>2. run[p].step \notin Early \cup Reading
    BY <2>1 DEF Early, Reading, Backups, Fills, Filling
  <2>3. QED
    BY <1>n, <2>2
<1>9. ASSUME UNCHANGED settingsVars PROVE Goal
  BY <1>9, <1>o DEF settingsVars, fileVars, NotPast
<1>10. Goal
  <2> HIDE DEF Goal
  <2>1. ASSUME SettingsNext PROVE Goal
    <3>1. PICK p \in Processes :
            \/ \E command \in Kinds, env \in BOOLEAN : Begin(p, command, env)
            \/ \E b \in Backups : CreateBackup(p, b) \/ FillBackup(p, b)
            \/ Load(p) \/ Pick(p) \/ Keep(p) \/ Kill(p)
            \/ MigrateSecret(p) \/ CreateSecret(p) \/ RenameSecret(p) \/ Write(p)
            \/ Rename(p) \/ Resolve(p) \/ Install(p) \/ Binary(p)
      BY <2>1 DEF SettingsNext
    <3>2. QED
      BY <3>1, <1>1, <1>2, <1>3, <1>4, <1>5, <1>6, <1>7, <1>8
  <2>2. QED
    BY <2>1, <1>9
<1>11. QED
  BY <1>10 DEF Goal

\* The original is where it was, or in a backup for good.
LEMMA KeptInvariant ==
    SettingsTypeOK /\ FilledByOne /\ KeptSoFar /\ [SettingsNext]_settingsVars => KeptSoFar'
<1> SUFFICES ASSUME SettingsTypeOK, FilledByOne, KeptSoFar, [SettingsNext]_settingsVars,
                    Legacy(original)
             PROVE  KeptSoFar'
  BY OriginalFixed DEF KeptSoFar
<1>1. original' = original
  BY OriginalFixed
<1>2. CASE \E b \in Backups : backup[b] = original
  BY <1>1, <1>2, BackupStays DEF Legacy, KeptSoFar
<1>3. CASE config = original /\ \A p \in Processes : NotPast(p)
  BY <1>1, <1>3, NotPastStep DEF KeptSoFar
<1>4. QED
  BY <1>2, <1>3 DEF KeptSoFar

\* What refers to no stored secret refers to none after a step of one command.
LEMMA ReferenceStep ==
    ASSUME run \in [Processes -> Run], NEW p \in Processes,
           NEW next, NEW bytes, NEW written, Proceed(p, next, bytes, written)
    PROVE  /\ NoReference /\ ~ToFile(config') /\ (\A b \in Backups : ~ToFile(backup'[b]))
           /\ ~ToFile(bytes) /\ (next \in {"idle", "store", "store rename"} \/ ~ToFile(written))
           => NoReference'
<1>a. \A q \in Processes : q # p => run'[q] = run[q]
  BY ProceedOne
<1>b. next = "idle" => run'[p] = Idle
  BY ProceedOne
<1>c. CASE next = "idle"
  <2>1. run'[p].read = Absent /\ run'[p].draft = Absent /\ run'[p].preserved = Absent
    BY <1>b, <1>c DEF Idle
  <2>2. ~ToFile(Absent)
    BY FilesAssumption DEF ToFile
  <2>3. ~ToFile(run'[p].read) /\ ~ToFile(run'[p].draft) /\ ~ToFile(run'[p].preserved)
    BY <2>1, <2>2
  <2>4. QED
    BY <1>a, <2>3 DEF NoReference, ToFile
<1>d. CASE next # "idle"
  <2>1. run'[p] = [step |-> next, kind |-> run[p].kind, override |-> run[p].override,
                   read |-> bytes, draft |-> written, preserved |-> run[p].preserved]
    BY <1>d, ProceedOne
  <2>2. /\ run'[p].step = next /\ run'[p].read = bytes /\ run'[p].draft = written
        /\ run'[p].preserved = run[p].preserved
    BY <2>1
  <2>3. QED
    BY <1>a, <1>d, <2>2 DEF NoReference, ToFile
<1>e. QED
  BY <1>c, <1>d

\* The secret is stored before anything that can be read refers to it.
LEMMA ReferenceInvariant ==
    /\ SettingsTypeOK /\ InHand /\ (secret \/ NoReference) /\ [SettingsNext]_settingsVars
    => (secret \/ NoReference)'
<1> SUFFICES ASSUME SettingsTypeOK, InHand, secret \/ NoReference, [SettingsNext]_settingsVars,
                    ~secret'
             PROVE  NoReference'
  OBVIOUS
<1> USE SettingsAssumption, FilesAssumption
<1>0. run \in [Processes -> Run] /\ backup \in [Backups -> Contents]
  BY DEF SettingsTypeOK, Run
<1>s. ~secret
  <2>1. ASSUME NEW p \in Processes, NEW b \in Backups, CreateBackup(p, b) \/ FillBackup(p, b)
        PROVE secret' = secret
    BY <2>1 DEF CreateBackup, FillBackup
  <2>2. ASSUME NEW p \in Processes, NEW command \in Kinds, NEW env \in BOOLEAN,
               Begin(p, command, env)
        PROVE secret' = secret
    BY <2>2 DEF Begin, fileVars
  <2>3. ASSUME NEW p \in Processes,
               \/ Load(p) \/ MigrateSecret(p) \/ CreateSecret(p) \/ RenameSecret(p) \/ Write(p)
               \/ Rename(p) \/ Resolve(p) \/ Install(p) \/ Binary(p) \/ Pick(p) \/ Keep(p) \/ Kill(p)
        PROVE secret' = TRUE \/ secret' = secret
    BY <2>3 DEF Load, MigrateSecret, CreateSecret, RenameSecret, Write, Rename, Resolve, Install,
       Binary, Pick, Keep, Kill, fileVars
  <2>4. CASE UNCHANGED settingsVars
    BY <2>4 DEF settingsVars, fileVars
  <2>5. QED
    BY <2>1, <2>2, <2>3, <2>4 DEF SettingsNext
<1>n. NoReference
  BY <1>s
<1>f. /\ ~ToFile(config) /\ \A b \in Backups : ~ToFile(backup[b])
      /\ ~ToFile(Absent) /\ ~ToFile(Partial) /\ ~ToFile(Default)
      /\ \A p \in Processes : ~ToFile(run[p].read) /\ ~ToFile(run[p].preserved)
  BY <1>n DEF NoReference, ToFile, Default
<1>1. ASSUME NEW p \in Processes, NEW command \in Kinds, NEW env \in BOOLEAN, Begin(p, command, env)
      PROVE NoReference'
  <2>1. config' = config /\ backup' = backup
    BY <1>1 DEF Begin, fileVars
  <2>2. \A q \in Processes : q # p => run'[q] = run[q]
    BY <1>0, <1>1 DEF Begin
  <2>3. run'[p].read = Absent /\ run'[p].draft = Absent /\ run'[p].preserved \in {config, Absent}
    BY <1>0, <1>1 DEF Begin, Idle
  <2>4. ~ToFile(run'[p].read) /\ ~ToFile(run'[p].draft) /\ ~ToFile(run'[p].preserved)
    BY <1>f, <2>3
  <2>5. QED
    BY <1>n, <2>1, <2>2, <2>4 DEF NoReference, ToFile
<1>2. ASSUME NEW p \in Processes, Load(p) PROVE NoReference'
  <2> DEFINE bytes == IF config = Absent THEN Default ELSE config
             next == IF bytes = Partial THEN "idle" ELSE FirstStep[bytes.version]
  <2>1. Proceed(p, next, bytes, run[p].draft) /\ config' = config /\ backup' = backup
    BY <1>2 DEF Load, Reads, fileVars
  <2>2. ~ToFile(bytes) /\ ~ToFile(run[p].draft)
    BY <1>2, <1>f, <1>n DEF Load, NoReference
  <2>3. ~ToFile(config') /\ \A b \in Backups : ~ToFile(backup'[b])
    BY <1>f, <2>1
  <2> HIDE DEF bytes, next
  <2>4. QED
    BY <1>0, <1>n, <2>1, <2>2, <2>3, ReferenceStep
<1>3. ASSUME NEW p \in Processes, MigrateSecret(p) PROVE NoReference'
  <2> DEFINE next == IF run[p].read.credential = "inline" THEN "store" ELSE "write"
  <2>1. /\ Proceed(p, next, run[p].read, Migrated(run[p].read))
        /\ config' = config /\ backup' = backup
    BY <1>3 DEF MigrateSecret, Drafts, fileVars
  <2>2. next = "store" \/ ~ToFile(Migrated(run[p].read))
    <3>1. run[p].read \in Document
      BY <1>3 DEF MigrateSecret, InHand, Suits
    <3>2. run[p].read.credential # "file"
      BY <1>f, <3>1 DEF ToFile
    <3>3. QED
      BY <3>1, <3>2, MigratedDocument DEF ToFile
  <2>3. ~ToFile(config') /\ \A b \in Backups : ~ToFile(backup'[b])
    BY <1>f, <2>1
  <2> HIDE DEF next
  <2>4. QED
    BY <1>0, <1>f, <1>n, <2>1, <2>2, <2>3, ReferenceStep
<1>4. ASSUME NEW p \in Processes, CreateSecret(p) \/ RenameSecret(p) \/ Write(p) \/ Kill(p)
      PROVE NoReference'
  <2>1. PICK next : /\ Proceed(p, next, run[p].read, run[p].draft)
                    /\ next \in {"idle", "store rename"} \/ run[p].step = "write"
    BY <1>4, <1>s DEF CreateSecret, RenameSecret, Write, Kill, GoTo
  <2>2. config' = config /\ backup' = backup
    BY <1>4 DEF CreateSecret, RenameSecret, Write, Kill, fileVars
  <2>3. ~ToFile(config') /\ \A b \in Backups : ~ToFile(backup'[b])
    BY <1>f, <2>2
  <2>4. next \in {"idle", "store", "store rename"} \/ ~ToFile(run[p].draft)
    BY <1>n, <2>1 DEF NoReference
  <2>5. QED
    BY <1>0, <1>f, <1>n, <2>1, <2>3, <2>4, ReferenceStep
<1>5. ASSUME NEW p \in Processes, NEW b \in Backups, CreateBackup(p, b) \/ FillBackup(p, b)
      PROVE NoReference'
  <2>1. PICK next : Proceed(p, next, run[p].read, run[p].draft)
    BY <1>5 DEF CreateBackup, FillBackup, GoTo
  <2>2. config' = config
    BY <1>5 DEF CreateBackup, FillBackup
  <2>3. \A c \in Backups : backup'[c] \in {backup[c], Partial, run[p].read}
    BY <1>0, <1>5 DEF CreateBackup, FillBackup
  <2>4. ~ToFile(config') /\ \A c \in Backups : ~ToFile(backup'[c])
    BY <1>f, <2>2, <2>3
  <2>5. ~ToFile(run[p].draft)
    <3>1. run[p].step \notin {"store", "store rename"}
      BY <1>5 DEF CreateBackup, FillBackup, Backups, Filling
    <3>2. QED
      BY <1>n, <3>1 DEF NoReference
  <2>6. QED
    BY <1>0, <1>f, <1>n, <2>1, <2>4, <2>5, ReferenceStep
<1>6. ASSUME NEW p \in Processes, Rename(p) PROVE NoReference'
  <2>1. ~ToFile(run[p].draft)
    BY <1>6, <1>n DEF Rename, NoReference
  <2>2. PICK next : Proceed(p, next, IF Migrating(p) THEN run[p].draft ELSE run[p].read, run[p].draft)
    BY <1>6 DEF Rename, Reads
  <2>3. ~ToFile(IF Migrating(p) THEN run[p].draft ELSE run[p].read)
    BY <1>f, <2>1
  <2>4. config' = run[p].draft /\ backup' = backup
    BY <1>6 DEF Rename
  <2>5. ~ToFile(config') /\ \A b \in Backups : ~ToFile(backup'[b])
    BY <1>f, <2>1, <2>4
  <2>6. QED
    BY <1>0, <1>n, <2>1, <2>2, <2>3, <2>5, ReferenceStep
<1>7. ASSUME NEW p \in Processes, Resolve(p) PROVE NoReference'
  <2>1. config' = config /\ backup' = backup
    BY <1>7 DEF Resolve, fileVars
  <2>2. ~ToFile(config') /\ \A b \in Backups : ~ToFile(backup'[b])
    BY <1>f, <2>1
  <2>3. run[p].read \in Document /\ run[p].read.credential # "file"
    BY <1>7, <1>f DEF Resolve, InHand, Suits, ToFile
  <2>4. CASE GoTo(p, "idle")
    BY <1>0, <1>f, <1>n, <2>2, <2>4, ReferenceStep DEF GoTo
  <2>5. ASSUME NEW c \in Credentials(p),
               Drafts(p, AfterResolve(p), [Loaded(p) EXCEPT !.credential = c, !.writer = started])
        PROVE NoReference'
    <3> DEFINE doc == [Loaded(p) EXCEPT !.credential = c, !.writer = started]
    <3>1. Proceed(p, AfterResolve(p), run[p].read, doc)
      BY <2>5 DEF Drafts
    <3>2. CASE run[p].kind = "set-key"
      <4>1. AfterResolve(p) = "store"
        BY <3>2 DEF AfterResolve
      <4> HIDE DEF doc
      <4>2. QED
        BY <1>0, <1>f, <1>n, <2>2, <3>1, <4>1, ReferenceStep
    <3>3. CASE run[p].kind # "set-key"
      <4>1. c # "file"
        BY <2>3, <2>5, <3>3 DEF Credentials, Loaded, Document
      <4>2. doc.credential = c
        BY <2>3 DEF Loaded, Document
      <4>3. ~ToFile(doc)
        BY <4>1, <4>2 DEF ToFile
      <4> HIDE DEF doc
      <4>4. QED
        BY <1>0, <1>f, <1>n, <2>2, <3>1, <4>3, ReferenceStep
    <3>4. QED
      BY <3>2, <3>3
  <2>6. QED
    BY <1>7, <2>4, <2>5 DEF Resolve
<1>8. ASSUME NEW p \in Processes, Install(p) \/ Binary(p) PROVE NoReference'
  <2>1. config' \in {config, Default, Absent} /\ backup' = backup
    BY <1>8 DEF Install, Binary
  <2>2. PICK next, written : /\ Proceed(p, next, run[p].read, written)
                             /\ written \in {run[p].draft, run[p].preserved}
    BY <1>8 DEF Install, Binary, GoTo, Drafts
  <2>3. ~ToFile(run[p].draft)
    BY <1>8, <1>n DEF Install, Binary, NoReference
  <2>4. ~ToFile(config') /\ \A b \in Backups : ~ToFile(backup'[b])
    BY <1>f, <2>1
  <2>5. ~ToFile(written)
    BY <1>f, <2>2, <2>3
  <2>6. QED
    BY <1>0, <1>f, <1>n, <2>2, <2>4, <2>5, ReferenceStep
<1>9. ASSUME NEW p \in Processes, Pick(p) \/ Keep(p) PROVE NoReference'
  <2>1. config' = config /\ backup' = backup
    BY <1>9 DEF Pick, Keep, fileVars
  <2>2. PICK next, bytes, written :
          /\ Proceed(p, next, bytes, written)
          /\ bytes \in {run[p].read, config}
          /\ written \in {run[p].draft, backup["pre-v1"], backup["pre-v2"]}
    BY <1>9 DEF Pick, Keep, Drafts, Reads
  <2>3. ~ToFile(run[p].draft) /\ ~ToFile(backup["pre-v1"]) /\ ~ToFile(backup["pre-v2"])
    BY <1>9, <1>f, <1>n DEF Pick, Keep, NoReference, Backups
  <2>4. ~ToFile(config') /\ \A b \in Backups : ~ToFile(backup'[b])
    BY <1>f, <2>1
  <2>5. ~ToFile(bytes) /\ ~ToFile(written)
    BY <1>f, <2>2, <2>3
  <2>6. QED
    BY <1>0, <1>n, <2>2, <2>4, <2>5, ReferenceStep
<1>10. CASE UNCHANGED settingsVars
  BY <1>10, <1>n DEF settingsVars, fileVars, NoReference, ToFile
<1>11. QED
  BY <1>1, <1>2, <1>3, <1>4, <1>5, <1>6, <1>7, <1>8, <1>9, <1>10 DEF SettingsNext

\* The files, the commands and what they hold are as the two properties need them
\* (config_migration.rs, config.rs).
THEOREM SettingsInvariant == SettingsSpec => []SettingsInv
<1> USE SettingsAssumption, FilesAssumption
<1>1. SettingsInit => SettingsInv
  <2> SUFFICES ASSUME SettingsInit PROVE SettingsInv
    OBVIOUS
  <2>1. SettingsTypeOK
    <3>1. config \in Contents
      BY DEF SettingsInit, Contents, Document, Default, Current
    <3>2. run \in [Processes -> Run]
      BY DEF SettingsInit, Run, Idle, Steps, Kinds, Contents
    <3>3. QED
      BY <3>1, <3>2 DEF SettingsInit, SettingsTypeOK, Run, Contents
  <2>2. \A p \in Processes : run[p] = Idle
    BY DEF SettingsInit
  <2>3. InHand
    <3>1. \A p \in Processes : run[p].step = "idle"
      BY <2>2 DEF Idle
    <3>2. QED
      BY <3>1 DEF InHand, Suits, Moving
  <2>4. FilledByOne
    BY <2>2 DEF FilledByOne, Idle, Filling, Backups
  <2>5. KeptSoFar
    BY <2>2 DEF SettingsInit, KeptSoFar, NotPast, Idle
  <2>6. secret \/ NoReference
    BY <2>2 DEF SettingsInit, NoReference, ToFile, Idle
  <2>7. QED
    BY <2>1, <2>3, <2>4, <2>5, <2>6 DEF SettingsInv
<1>2. SettingsInv /\ [SettingsNext]_settingsVars => SettingsInv'
  BY TypeInvariant, InHandInvariant, FilledInvariant, KeptInvariant, ReferenceInvariant DEF SettingsInv
<1>3. QED
  BY <1>1, <1>2, PTL DEF SettingsSpec

\* Nothing that is killed, repeated or done at once loses the original file.
THEOREM OriginalNeverLost == SettingsSpec => []OriginalKept
<1>1. SettingsInv => OriginalKept
  BY DEF SettingsInv, KeptSoFar, OriginalKept
<1>2. QED
  BY <1>1, SettingsInvariant, PTL

\* A configuration that refers to the stored secret finds it.
THEOREM SecretStoredFirst == SettingsSpec => []SecretReachable
<1>1. SettingsInv => SecretReachable
  BY DEF SettingsInv, NoReference, ToFile, SecretReachable
<1>2. QED
  BY <1>1, SettingsInvariant, PTL
=============================================================================
