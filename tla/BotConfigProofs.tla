--------------------------- MODULE BotConfigProofs --------------------------
(* What TLAPS proves of the configuration file, for every set of webhooks  *)
(* and settings and any number of runs.                                    *)
EXTENDS BotConfig, TLAPS

\* What merge_with_config takes for a webhook is a whole one.
LEMMA GivenWebHookIsWhole ==
    ASSUME BotConfigAssumption, options \in Options, WebHookIsGiven
    PROVE  \E h \in Hooks : \A f \in Fields : options.webhook[f] = h
<1>1. PICK h \in Hooks : options.webhook \in [Fields -> {Unset, Blank, h}]
  BY DEF Options, Given
<1>2. \A f \in Fields : options.webhook[f] = h
  BY <1>1 DEF WebHookIsGiven, GivenFields
<1>3. QED
  BY <1>2

LEMMA ForgottenIsSound ==
    ASSUME BotConfigAssumption, Forget
    PROVE  options' \in Options /\ config' = DefaultConfig /\ DefaultConfig \in Configs
<1>1. NoOptions \in Options
  <2>1. PICK h \in Hooks : TRUE
    BY DEF BotConfigAssumption
  <2>2. [f \in Fields |-> Unset] \in [Fields -> {Unset, Blank, h}]
    OBVIOUS
  <2>3. [f \in Fields |-> Unset] \in Given
    BY <2>2 DEF Given
  <2>4. QED
    BY <2>3 DEF NoOptions, Options
<1>2. QED
  BY <1>1 DEF Forget, DefaultConfig, Configs, Modes

LEMMA InitConfigInv == Init => ConfigInv
<1> SUFFICES ASSUME Init PROVE ConfigInv
  OBVIOUS
<1>1. NoOptions \in Options /\ DefaultConfig \in Configs
  <2>1. PICK h \in Hooks : TRUE
    BY BotConfigAssumption DEF BotConfigAssumption
  <2>2. [f \in Fields |-> Unset] \in [Fields -> {Unset, Blank, h}]
    OBVIOUS
  <2>3. QED
    BY <2>2 DEF NoOptions, Options, Given, DefaultConfig, Configs, Modes
<1>2. TypeOK
  BY <1>1 DEF Init, TypeOK
<1>3. Held = {DefaultConfig}
  BY BotConfigAssumption DEF BotConfigAssumption, Init, Held
<1>4. WebHooksAreWhole
  BY <1>3 DEF WebHooksAreWhole, DefaultConfig
<1>5. QED
  BY <1>2, <1>4 DEF ConfigInv, HandFollowsFile, Init

\* A merge gives a configuration, with a whole webhook if it has one, and never
\* leaves webhook mode.
LEMMA MergeIsSound ==
    ASSUME BotConfigAssumption, TypeOK, WebHooksAreWhole, MergeWithConfig
    PROVE  /\ config' \in Configs
           /\ config'.mode = Polling
              \/ \E h \in Hooks : config'.mode = [f \in Fields |-> h]
           /\ InWebHookMode(config) => InWebHookMode(config')
           /\ config'.setting \in {config.setting, options.setting}
<1>1. config' = [setting |-> MergedSetting, mode |-> MergedMode]
  BY DEF MergeWithConfig
<1>2. MergedSetting \in {config.setting, options.setting} \cap (Settings \cup {Default})
  BY DEF MergedSetting, TypeOK, Options, Configs
<1>3. CASE NoneIsGiven
  <2>1. MergedMode = config.mode
    BY <1>3 DEF MergedMode
  <2>2. config.mode \in Modes /\ config \in Held
    BY DEF TypeOK, Configs, Held
  <2>3. QED
    BY <1>1, <1>2, <2>1, <2>2 DEF WebHooksAreWhole, InWebHookMode, Configs
<1>4. CASE ~NoneIsGiven
  <2>1. WebHookIsGiven
    BY <1>4 DEF MergeWithConfig
  <2>2. PICK h \in Hooks : \A f \in Fields : options.webhook[f] = h
    BY <2>1, GivenWebHookIsWhole DEF TypeOK
  <2>3. MergedMode = [f \in Fields |-> h]
    BY <1>4, <2>1, <2>2 DEF MergedMode, WebHookIsGiven
  <2>4. MergedMode \in Modes /\ MergedMode # Polling
    BY <2>3 DEF Modes, BotConfigAssumption
  <2>5. QED
    BY <1>1, <1>2, <2>3, <2>4 DEF InWebHookMode, Configs
<1>5. QED
  BY <1>3, <1>4

\* Each step that moves a configuration, from the file to the hand and from
\* there to the file or the bot, moves it as a whole.
LEMMA ConfigInvStep == ConfigInv /\ [Next]_vars => ConfigInv'
<1> SUFFICES ASSUME ConfigInv, [Next]_vars PROVE ConfigInv'
  OBVIOUS
<1> USE BotConfigAssumption DEF ConfigInv
<1> DEFINE Whole(c) == c.mode = Polling \/ \E h \in Hooks : c.mode = [f \in Fields |-> h]
<1>0. Whole(config) /\ (file \in Configs => Whole(file))
      /\ (bot # Unset => Whole(bot.config))
  BY DEF WebHooksAreWhole, Held
<1>a. ASSUME Whole(config'), file' \in Configs => Whole(file'),
             bot' # Unset => Whole((bot').config)
      PROVE  WebHooksAreWhole'
  BY <1>a DEF WebHooksAreWhole, Held
<1>b. Whole(DefaultConfig)
  BY DEF DefaultConfig
<1> HIDE DEF Whole
<1>1. ASSUME NEW o \in Options, ParseCmdline(o) PROVE ConfigInv'
  <2>1. TypeOK'
    BY <1>1 DEF ParseCmdline, TypeOK
  <2>2. WebHooksAreWhole'
    BY <1>0, <1>a, <1>1 DEF ParseCmdline
  <2>3. QED
    BY <1>1, <2>1, <2>2 DEF ParseCmdline, HandFollowsFile
<1>2. CASE LoadFile
  <2>1. DefaultConfig \in Configs
    BY DEF DefaultConfig, Configs, Modes
  <2>2. TypeOK'
    BY <1>2, <2>1 DEF LoadFile, TypeOK
  <2>3. WebHooksAreWhole'
    BY <1>0, <1>a, <1>b, <1>2 DEF LoadFile
  <2>4. file # Torn
    BY <1>2 DEF LoadFile, StartsAnew, BotConfigAssumption
  <2>5. InWebHookMode(file) => InWebHookMode(config')
    BY <1>2 DEF LoadFile, InWebHookMode
  <2>6. QED
    BY <1>2, <2>2, <2>3, <2>4, <2>5 DEF LoadFile, HandFollowsFile, InWebHookMode
<1>3. CASE MergeWithConfig
  <2>1. /\ config' \in Configs /\ Whole(config')
        /\ InWebHookMode(config) => InWebHookMode(config')
        /\ config'.setting \in {config.setting, options.setting}
    BY <1>3, MergeIsSound DEF Whole
  <2>2. TypeOK'
    BY <1>3, <2>1 DEF MergeWithConfig, TypeOK
  <2>3. WebHooksAreWhole'
    BY <1>0, <1>a, <1>3, <2>1 DEF MergeWithConfig
  <2>4. HandFollowsFile'
    BY <1>3, <2>1 DEF MergeWithConfig, HandFollowsFile, InWebHookMode
  <2>5. QED
    BY <2>2, <2>3, <2>4
<1>4. CASE RefuseToLoad \/ RefuseToMerge \/ SaveAndExit \/ RunBot \/ Kill
  <2>1. Forget
    BY <1>4 DEF RefuseToLoad, RefuseToMerge, SaveAndExit, RunBot, Kill
  <2>2. options' \in Options /\ config' \in Configs /\ config' = DefaultConfig
    BY <2>1, ForgottenIsSound
  <2>3. file' \in {config, file, Torn}
        /\ bot' \in {bot, [config |-> config, options |-> options]}
    BY <1>4 DEF RefuseToLoad, RefuseToMerge, SaveAndExit, RunBot, Kill
  <2>4. TypeOK'
    BY <2>1, <2>2, <2>3 DEF TypeOK, Forget
  <2>5. WebHooksAreWhole'
    BY <1>0, <1>a, <1>b, <2>2, <2>3 DEF BotConfigAssumption
  <2>6. QED
    BY <2>1, <2>4, <2>5 DEF Forget, HandFollowsFile
<1>5. CASE UNCHANGED vars
  <2>1. TypeOK'
    BY <1>5 DEF vars, TypeOK
  <2>2. WebHooksAreWhole'
    BY <1>0, <1>a, <1>5 DEF vars
  <2>3. QED
    BY <1>5, <2>1, <2>2 DEF vars, HandFollowsFile, InWebHookMode
<1>6. QED
  BY <1>1, <1>2, <1>3, <1>4, <1>5 DEF Next

\* The file, the run in progress and the bot hold webhooks whose four values
\* were given together, and a run works on what the file has.
THEOREM ConfigInvariant == Spec => []ConfigInv
<1>1. Init => ConfigInv
  BY InitConfigInv
<1>2. ConfigInv /\ [Next]_vars => ConfigInv'
  BY ConfigInvStep
<1>3. QED
  BY <1>1, <1>2, PTL DEF Spec

\* Webhook mode survives every later run: a file in that mode is followed by
\* files in that mode, or torn, and nothing starts anew from a torn file.
LEMMA WebHookStep ==
    ConfigInv /\ (InWebHookMode(file) \/ file = Torn) /\ [Next]_vars
    => (InWebHookMode(file) \/ file = Torn)'
<1> SUFFICES ASSUME ConfigInv, InWebHookMode(file) \/ file = Torn, [Next]_vars
             PROVE  InWebHookMode(file') \/ file' = Torn
  BY DEF InWebHookMode
<1>1. CASE SaveAndExit
  BY <1>1 DEF SaveAndExit, ConfigInv, HandFollowsFile
<1>2. CASE UNCHANGED file
  BY <1>2
<1>3. QED
  BY <1>1, <1>2
     DEF Next, ParseCmdline, LoadFile, RefuseToLoad, MergeWithConfig,
         RefuseToMerge, RunBot, Kill, vars

THEOREM WebHookStays == Spec => WebHookIsForGood
<1> DEFINE J == InWebHookMode(file) \/ file = Torn
<1>1. ConfigInv /\ J /\ [Next]_vars => J'
  BY WebHookStep
<1>2. InWebHookMode(file) => J
  OBVIOUS
<1>3. J => (file \in Configs => InWebHookMode(file))
  BY BotConfigAssumption DEF BotConfigAssumption
<1> HIDE DEF J
<1>4. QED
  BY <1>1, <1>2, <1>3, ConfigInvariant, PTL DEF Spec, WebHookIsForGood

\* A setting of the file changes only where a -w run was told to change it.
THEOREM SettingsStay == Spec => SettingsAreKept
<1>1. ConfigInv /\ [Next]_vars => [KeepsSetting]_vars
  <2> SUFFICES ASSUME ConfigInv, Next, file \in Configs
               PROVE  /\ file' # Absent
                      /\ \/ file' = Torn
                         \/ file'.setting = file.setting
                         \/ options.write /\ file'.setting = options.setting
    BY DEF KeepsSetting
  <2>1. CASE SaveAndExit
    BY <2>1, BotConfigAssumption
       DEF SaveAndExit, ConfigInv, HandFollowsFile, TypeOK, BotConfigAssumption
  <2>2. CASE UNCHANGED file
    BY <2>2, BotConfigAssumption DEF BotConfigAssumption
  <2>3. QED
    BY <2>1, <2>2
       DEF Next, ParseCmdline, LoadFile, RefuseToLoad, MergeWithConfig,
           RefuseToMerge, RunBot, Kill
<1>2. QED
  BY <1>1, ConfigInvariant, PTL DEF Spec, SettingsAreKept
=============================================================================
