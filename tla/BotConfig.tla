------------------------------ MODULE BotConfig -----------------------------
(***************************************************************************)
(* The life of the configuration file over the runs of the program:        *)
(* src/src/bin/bot_starter_kit.rs and merge_with_config of                 *)
(* src/src/bin/models/cli.rs.                                              *)
(*                                                                         *)
(* A run loads the file, merges its options into what it found, and either *)
(* saves the result (-w) or becomes the bot.  Runs of the operator follow  *)
(* each other; a bot may go on beside them, with the configuration it has. *)
(* Loading, merging and saving are steps of their own: a run may be killed *)
(* between them, and a save that is cut short leaves a file that does not  *)
(* decrypt (how ogre_config_meld writes is not known here).                *)
(***************************************************************************)
EXTENDS Integers

CONSTANTS
    Fields,    \* url, secret, certificate_file, private_key_file
    Hooks,     \* names of sets of these four that belong together
    Settings,  \* values of the other options: level, token, three durations
    Default,   \* what BotConfig::default has for those
    Unset,      \* an option that is absent
    Blank,     \* an option that is blank
    Polling, Absent, Torn

Modes   == {Polling} \cup [Fields -> Hooks]
Configs == [setting : Settings \cup {Default}, mode : Modes]

\* Whoever gives webhook options gives them from one set, or forgets some.
Given   == UNION {[Fields -> {Unset, Blank, h}] : h \in Hooks}
Options == [write : BOOLEAN, token : BOOLEAN, setting : Settings \cup {Unset},
            webhook : Given]

ASSUME BotConfigAssumption ==
    /\ Fields # {} /\ Hooks # {}
    /\ {Unset, Blank} \cap Hooks = {} /\ Unset # Blank
    /\ Unset \notin Settings
    /\ Polling \notin [Fields -> Hooks]
    /\ {Absent, Torn} \cap Configs = {} /\ Absent # Torn
    /\ Unset \notin [config : Configs, options : Options]

VARIABLES
    file,    \* the saved, encrypted file
    stage,   \* how far the run in progress is
    options, \* its command line and environment
    config,  \* the configuration it has in hand
    bot      \* the run that became the bot last

vars == <<file, stage, options, config, bot>>

TypeOK ==
    /\ file \in Configs \cup {Absent, Torn}
    /\ stage \in {"idle", "parsed", "loaded", "merged"}
    /\ options \in Options
    /\ config \in Configs
    /\ bot \in [config : Configs, options : Options] \cup {Unset}

\* BotConfig::default
DefaultConfig == [setting |-> Default, mode |-> Polling]

NoOptions == [write |-> FALSE, token |-> FALSE, setting |-> Unset,
              webhook |-> [f \in Fields |-> Unset]]

\* What a run that ended had in hand is forgotten.
Forget ==
    /\ stage' = "idle"
    /\ options' = NoOptions
    /\ config' = DefaultConfig

Init ==
    /\ file = Absent
    /\ stage = "idle"
    /\ options = NoOptions
    /\ config = DefaultConfig
    /\ bot = Unset

-----------------------------------------------------------------------------
ParseCmdline(o) ==
    /\ stage = "idle"
    /\ stage' = "parsed"
    /\ options' = o
    /\ UNCHANGED <<file, config, bot>>

\* load_from_file finds a configuration, or, without a file, the run is one
\* that may create it: it has a token and -w.
MayCreate  == options.token /\ options.write
EvenIfTorn == file = Torn \/ (file = Absent /\ MayCreate) \* (mutant)
StartsAnew == file = Absent /\ MayCreate

LoadFile ==
    /\ stage = "parsed"
    /\ file \in Configs \/ StartsAnew
    /\ stage' = "loaded"
    /\ config' = IF file \in Configs THEN file ELSE DefaultConfig
    /\ UNCHANGED <<file, options, bot>>

\* "No Teloxide token found", "Error loading the encrypted config file", ...
RefuseToLoad ==
    /\ stage = "parsed"
    /\ file \notin Configs /\ ~StartsAnew
    /\ Forget
    /\ UNCHANGED <<file, bot>>

\* merge_with_config: blank options count as absent.
GivenFields == {f \in Fields : options.webhook[f] \notin {Unset, Blank}}

\* With all four a webhook is set, with none the mode stays; anything else is
\* a violation of the merging logic.
AnyOfThem == \* (mutant: each given option replaces its own value)
    GivenFields # {} /\ (GivenFields = Fields \/ config.mode # Polling)
WebHookIsGiven == GivenFields = Fields
NoneIsGiven    == GivenFields = {}

MergedMode ==
    IF NoneIsGiven THEN config.mode
    ELSE [f \in Fields |-> IF f \in GivenFields THEN options.webhook[f]
                           ELSE config.mode[f]]

\* (mutant: an absent option resets its setting)
ResetUnlessGiven == IF options.setting = Unset THEN Default ELSE options.setting
MergedSetting    == IF options.setting = Unset THEN config.setting ELSE options.setting

MergeWithConfig ==
    /\ stage = "loaded"
    /\ WebHookIsGiven \/ NoneIsGiven
    /\ config' = [setting |-> MergedSetting, mode |-> MergedMode]
    /\ stage' = "merged"
    /\ UNCHANGED <<file, options, bot>>

RefuseToMerge ==
    /\ stage = "loaded"
    /\ ~WebHookIsGiven /\ ~NoneIsGiven
    /\ Forget
    /\ UNCHANGED <<file, bot>>

\* -w: save and exit.  A save that fails may leave the old file or a torn one.
SaveAndExit ==
    /\ stage = "merged"
    /\ options.write
    /\ file' \in {config, file, Torn}
    /\ Forget
    /\ UNCHANGED bot

RunBot ==
    /\ stage = "merged"
    /\ ~options.write
    /\ bot' = [config |-> config, options |-> options]
    /\ Forget
    /\ UNCHANGED file

Kill ==
    /\ stage # "idle"
    /\ Forget
    /\ UNCHANGED <<file, bot>>

Next ==
    \/ \E o \in Options : ParseCmdline(o)
    \/ LoadFile
    \/ RefuseToLoad
    \/ MergeWithConfig
    \/ RefuseToMerge
    \/ SaveAndExit
    \/ RunBot
    \/ Kill

Spec == Init /\ [][Next]_vars

-----------------------------------------------------------------------------
Held == {config} \cup {c \in {file} : c \in Configs}
                 \cup (IF bot = Unset THEN {} ELSE {bot.config})

\* The four webhook values always come from one run: the certificate goes with
\* the key, the secret with the URL, whatever earlier and later runs gave.
WebHooksAreWhole ==
    \A c \in Held : c.mode = Polling \/ \E h \in Hooks : c.mode = [f \in Fields |-> h]

InWebHookMode(c) == c \in Configs /\ c.mode # Polling

\* A configuration in hand came from the file or starts a new one.
HandFollowsFile ==
    stage \in {"loaded", "merged"} =>
        /\ file # Torn
        /\ InWebHookMode(file) => InWebHookMode(config)
        /\ file \in Configs => config.setting \in {file.setting, options.setting}

ConfigInv == TypeOK /\ WebHooksAreWhole /\ HandFollowsFile

\* Once a webhook was saved, no later file has the bot poll: neither a run
\* without webhook options, nor one that meets a file that was torn by a kill
\* (it refuses to go on rather than starting from the defaults).
WebHookIsForGood ==
    [](InWebHookMode(file) => [](file \in Configs => InWebHookMode(file)))

\* A saved setting changes only by a -w run that gives another one, and a saved
\* file is never lost to an absent one.
KeepsSetting ==
    file \in Configs =>
        /\ file' # Absent
        /\ \/ file' = Torn
           \/ file'.setting = file.setting
           \/ options.write /\ file'.setting = options.setting
SettingsAreKept == [][KeepsSetting]_vars

\* "If absent, "Polling" mode will be used": a bot that was started without the
\* webhook options polls.
AbsentMeansPolling ==
    (bot # Unset /\ \A f \in Fields : bot.options.webhook[f] = Unset)
    => bot.config.mode = Polling
=============================================================================
