---------------------------- MODULE Notifications ----------------------------
(***************************************************************************)
(* The settings of the notifications: the page that changes them, the      *)
(* table they are stored in, and the Telegram service that reads them when *)
(* it sends.                                                               *)
(*                                                                         *)
(* The page fires its saves and waits for none: they overlap, arrive in    *)
(* any order and fail silently.  The service reads the bot and the chat in *)
(* one query and the toggle of the notification in another.                *)
(***************************************************************************)
EXTENDS Naturals, FiniteSets

CONSTANT MaxSaves   \* bound: changes of settings, of the page and of others

VARIABLES
    stored,   \* the settings table
    page,     \* what the page shows, and whether it was loaded
    saves,    \* the requests of the page on their way to the server
    count,    \* changes so far
    agrees,   \* history: no save failed or overlapped another since the page was loaded
    sender    \* a message on its way out

vars == <<stored, page, saves, count, agrees, sender>>

Switches == {"enabled", "event"}
Credentials == {"botToken", "chatId"}
Keys == Switches \cup Credentials
Values(k) == IF k \in Switches THEN {"yes", "no"} ELSE {"", "old", "new"}
Idle == [step |-> "idle", kind |-> "typed", token |-> "", chat |-> "", since |-> {}]

AnyValue == {"unset", "yes", "no", "", "old", "new"}
Stored == {s \in [Keys -> AnyValue] : \A k \in Keys : s[k] \in {"unset"} \cup Values(k)}
Shown == {s \in [Keys -> AnyValue] : \A k \in Keys : s[k] \in Values(k)}

TypeOK ==
    /\ stored \in Stored
    /\ page \in [loaded : BOOLEAN, shown : Shown]
    /\ \A s \in saves : \A k \in DOMAIN s.patch : k \in Keys /\ s.patch[k] \in Values(k)
    /\ count \in 0..MaxSaves /\ agrees \in BOOLEAN
    /\ sender \in [step : {"idle", "config", "type", "deliver", "delivered"},
                   kind : {"typed", "plain", "test"}, token : {"", "old", "new"},
                   chat : {"", "old", "new"}, since : SUBSET Stored]

-----------------------------------------------------------------------------
(* SettingsService and the settings of Telegram *)

\* Mutant of SetSettings: only what is truthy is stored, switches included
SetSettingsTruthy(patch) ==
    {k \in DOMAIN patch : patch[k] # "" /\ ~(k = "enabled" /\ patch[k] = "no")}

\* An empty credential is not stored: it cannot be cleared
SetSettings(patch) == {k \in DOMAIN patch : patch[k] # ""}

\* One upsert for all the keys
UpdateSettings(patch) ==
    stored' = [k \in Keys |-> IF k \in SetSettings(patch) THEN patch[k] ELSE stored[k]]

GetTelegramSettings ==
    [k \in Keys \ {"event"} |->
        IF stored[k] # "unset" THEN stored[k] ELSE IF k = "enabled" THEN "no" ELSE ""]

\* A toggle nobody set is shown as switched off
GetEventSettings == IF stored["event"] = "yes" THEN "yes" ELSE "no"

\* The message under way remembers every state of the settings it lived through
Witness == sender' = IF sender.step = "idle" THEN sender
                     ELSE [sender EXCEPT !.since = @ \cup {stored'}]

-----------------------------------------------------------------------------
(* NotificationsSettings *)

Load ==
    /\ page' = [loaded |-> TRUE,
                shown |-> [k \in Keys |-> IF k = "event" THEN GetEventSettings
                                          ELSE GetTelegramSettings[k]]]
    /\ agrees' = (saves = {})
    /\ UNCHANGED <<stored, saves, count, sender>>

Save(patch) ==
    /\ count < MaxSaves /\ count' = count + 1
    /\ saves' = saves \cup {[id |-> count, patch |-> patch]}
    /\ agrees' = (agrees /\ saves = {})

\* onValuesChange: the indicator is on while nothing is awaited, so the switch
\* can be turned again at once
Toggle(k) ==
    /\ page.loaded
    /\ LET v == IF page.shown[k] = "yes" THEN "no" ELSE "yes" IN
        /\ page' = [page EXCEPT !.shown[k] = v]
        /\ Save([x \in {k} |-> v])
    /\ UNCHANGED <<stored, sender>>

\* onSave of the description gets the field, or the row it is part of
Row(k, v) == {[x \in {k} |-> v],
              [x \in Keys \ {"event"} |-> IF x = k THEN v ELSE page.shown[x]]}

SaveCredential(k) ==
    /\ page.loaded
    /\ \E v \in Values(k) \ {page.shown[k]} : \E patch \in Row(k, v) :
        /\ page' = [page EXCEPT !.shown[k] = v]
        /\ Save(patch)
    /\ UNCHANGED <<stored, sender>>

Served ==
    /\ \E s \in saves : UpdateSettings(s.patch) /\ saves' = saves \ {s}
    /\ Witness
    /\ UNCHANGED <<page, count, agrees>>

\* The page only logs it and keeps showing what was not stored
SaveFails ==
    /\ \E s \in saves : saves' = saves \ {s}
    /\ agrees' = FALSE
    /\ UNCHANGED <<stored, page, count, sender>>

OthersSave ==
    /\ count < MaxSaves /\ count' = count + 1
    /\ \E k \in Keys : \E v \in Values(k) : UpdateSettings([x \in {k} |-> v])
    /\ agrees' = FALSE
    /\ Witness
    /\ UNCHANGED <<page, saves>>

-----------------------------------------------------------------------------
(* TelegrafService *)

\* typed: of a type with a toggle of its own; plain: of none; test: the button
SendMessage(kind) ==
    /\ sender.step = "idle"
    /\ sender' = [Idle EXCEPT !.step = "config", !.kind = kind, !.since = {stored}]
    /\ UNCHANGED <<stored, page, saves, count, agrees>>

\* Mutant of Suppressed: one of the two credentials is enough
SuppressedWithoutBoth(config, kind) ==
    \/ kind # "test" /\ config["enabled"] = "no"
    \/ config["botToken"] = "" /\ config["chatId"] = ""

Suppressed(config, kind) ==
    \/ kind # "test" /\ config["enabled"] = "no"
    \/ config["botToken"] = "" \/ config["chatId"] = ""

ReadConfig ==
    /\ sender.step = "config"
    /\ LET config == GetTelegramSettings IN
        sender' = IF Suppressed(config, sender.kind) THEN Idle
                  ELSE [sender EXCEPT !.step = IF @ = "config" /\ sender.kind = "typed"
                                               THEN "type" ELSE "deliver",
                                      !.token = config["botToken"], !.chat = config["chatId"]]
    /\ UNCHANGED <<stored, page, saves, count, agrees>>

IsNotificationDisabled ==
    /\ sender.step = "type"
    /\ sender' = IF stored["event"] = "no" THEN Idle ELSE [sender EXCEPT !.step = "deliver"]
    /\ UNCHANGED <<stored, page, saves, count, agrees>>

\* A delivery that fails is logged, or told to who pressed the button
Deliver ==
    /\ sender.step = "deliver"
    /\ sender' \in {Idle, [sender EXCEPT !.step = "delivered"]}
    /\ UNCHANGED <<stored, page, saves, count, agrees>>

Delivered ==
    /\ sender.step = "delivered" /\ sender' = Idle
    /\ UNCHANGED <<stored, page, saves, count, agrees>>

-----------------------------------------------------------------------------
Init ==
    /\ \/ stored = [k \in Keys |-> "unset"]
       \/ \E e \in {"unset", "yes", "no"} :
            stored = [k \in Keys |-> CASE k = "event" -> e [] k = "enabled" -> "yes" [] OTHER -> "old"]
    /\ page = [loaded |-> FALSE, shown |-> [k \in Keys |-> IF k \in Switches THEN "no" ELSE ""]]
    /\ saves = {} /\ count = 0 /\ agrees = FALSE
    /\ sender = Idle

Next ==
    \/ Load \/ Served \/ SaveFails \/ OthersSave
    \/ \E k \in Switches : Toggle(k)
    \/ \E k \in Credentials : SaveCredential(k)
    \/ \E kind \in {"typed", "plain", "test"} : SendMessage(kind)
    \/ ReadConfig \/ IsNotificationDisabled \/ Deliver \/ Delivered

-----------------------------------------------------------------------------
(* Properties *)

\* The settings a message was let through with were stored, all at once
ConfigAllowed(s) ==
    /\ s["botToken"] = sender.token /\ s["chatId"] = sender.chat
    /\ sender.token \in {"old", "new"} /\ sender.chat \in {"old", "new"}
    /\ sender.kind = "test" \/ s["enabled"] = "yes"

\* What a message has been through so far was allowed when it was looked up
AllowedSoFar ==
    /\ sender.step # "idle" => stored \in sender.since
    /\ sender.step \in {"type", "deliver", "delivered"} =>
         \E s \in sender.since : ConfigAllowed(s)
    /\ sender.step \in {"deliver", "delivered"} /\ sender.kind = "typed" =>
         \E s \in sender.since : s["event"] # "no"

\* A single save is under way, and what it leaves alone is shown as it is stored
SwitchesFollow ==
    agrees =>
        /\ \A s, t \in saves : s = t
        /\ \A k \in Switches :
            IF \E s \in saves : k \in SetSettings(s.patch)
            THEN \A s \in saves : page.shown[k] = s.patch[k]
            ELSE page.shown[k] = "yes" <=> stored[k] = "yes"

\* A message that went out was allowed while it was sent: at one moment of the
\* send the bot and the chat it used were set together and Telegram was enabled,
\* and at one moment its type was not switched off
DeliveredWasAllowed ==
    sender.step = "delivered" =>
        /\ \E s \in sender.since : ConfigAllowed(s)
        /\ sender.kind = "typed" => \E s \in sender.since : s["event"] # "no"

\* When its saves have been served one by one, the page shows the switches as
\* they are stored
SwitchesShowWhatIsStored ==
    agrees /\ saves = {} =>
        \A k \in Switches : page.shown[k] = "yes" <=> stored[k] = "yes"
=============================================================================
