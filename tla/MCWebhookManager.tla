-------------------------- MODULE MCWebhookManager --------------------------
(* WebhookManager with two webhooks and two changes of the list.  One webhook is *)
(* given by WEBHOOKS_JSON.                                                       *)
EXTENDS WebhookManager

CONSTANTS door, tap

On(hs) == [h \in {door, tap} |-> IF h \in hs THEN "on" ELSE "absent"]

MCEnvList == On({door})

\* Somebody writes a list that is longer than MaxWebhooks, or none at all.
MCEdits == {ListFile(On({door, tap}), "other"), KeyOmitted("other")}

\* A backup has another list.
MCBackups == {ListFile(On({tap}), "other")}
=============================================================================
