------------------------------- MODULE Parts -------------------------------
(***************************************************************************)
(* The parts of the program that stand beside the runner: the pages on     *)
(* which the user changes something, each with what it changes of the back *)
(* end and of the launcher, and the long-lived things of the back end.     *)
(*                                                                         *)
(* They hold no state in common: a store is behind one of them only, and   *)
(* what a page remembers goes when it is left.  (The settings file is      *)
(* behind two; what the one writes is to the other a save by somebody      *)
(* else, which both of them have.)  So a step of one changes nothing of    *)
(* another, and a behaviour of all of them is one of each: it is enough to *)
(* let each of them run alone.                                             *)
(***************************************************************************)
EXTENDS SettingsPage, JobConfigPage, RunLogPage, WebhooksPage, ListPages,
        SignIn, MailWatcher, TrackerStore

CONSTANTS
    StoredSettings, \* the file behind Config -> Runtime
    LaunchFiles,    \* the files a process may be started from
    StoredGlobals,  \* the settings that the rows of Config -> Jobs show
    StoredHooks,    \* the endpoints there may be
    StoredRecords   \* the pages watched, and the mail rules

VARIABLE part       \* the one that runs

pageVars == <<settingsVars, jobsVars, runVars, hookVars, listVars>>
serviceVars == <<signInVars, mailVars, trackerVars>>
allVars == <<pageVars, serviceVars, part>>

AllParts == {"launch", "settings", "jobs", "runs", "webhooks", "lists", "signin", "mail", "tracker"}

TypeOK ==
    /\ part \in AllParts
    /\ SettingsTypeOK /\ JobsTypeOK /\ RunLogTypeOK /\ HooksTypeOK /\ ListTypeOK
    /\ SignInTypeOK /\ MailTypeOK /\ TrackerTypeOK

Init ==
    /\ part \in AllParts
    /\ SettingsInit(IF part = "launch" THEN LaunchFiles ELSE StoredSettings,
                    IF part = "settings" THEN Opened ELSE Closed)
    /\ JobsInit(StoredGlobals)
    /\ RunLogInit(IF part = "runs" THEN Scopes ELSE {<<>>})
    /\ HooksInit(IF part = "webhooks" THEN StoredHooks ELSE {NoHooks})
    /\ ListInit(IF part = "lists" THEN {"pages", "rules"} ELSE {"pages"}, StoredRecords)
    /\ SignInInit /\ MailInit /\ TrackerInit

\* A process is started from whatever the file says, again and again.
LaunchNext == Crashes \/ Boots

OthersRest(vs) == UNCHANGED <<part, vs>>

Next ==
    \/ part = "launch" /\ LaunchNext /\ OthersRest(<<jobsVars, runVars, hookVars, listVars, serviceVars>>)
    \/ part = "settings" /\ SettingsNext /\ OthersRest(<<jobsVars, runVars, hookVars, listVars, serviceVars>>)
    \/ part = "jobs" /\ JobsNext /\ OthersRest(<<settingsVars, runVars, hookVars, listVars, serviceVars>>)
    \/ part = "runs" /\ RunLogNext /\ OthersRest(<<settingsVars, jobsVars, hookVars, listVars, serviceVars>>)
    \/ part = "webhooks" /\ HooksNext /\ OthersRest(<<settingsVars, jobsVars, runVars, listVars, serviceVars>>)
    \/ part = "lists" /\ ListNext /\ OthersRest(<<settingsVars, jobsVars, runVars, hookVars, serviceVars>>)
    \/ part = "signin" /\ SignInNext /\ OthersRest(<<pageVars, mailVars, trackerVars>>)
    \/ part = "mail" /\ MailNext /\ OthersRest(<<pageVars, signInVars, trackerVars>>)
    \/ part = "tracker" /\ TrackerNext /\ OthersRest(<<pageVars, signInVars, mailVars>>)

Spec == Init /\ [][Next]_allVars
FairSpec == Spec /\ SettingsFair   \* the page is closed in the other parts
==============================================================================
