------------------------ MODULE MCWebhookDispatcher -------------------------
(* Small instances of WebhookDispatcher.                                   *)
EXTENDS WebhookDispatcher

AllSubscribe == [h \in Hooks |-> Events]
AllFaults == {"crash", "connectionLost", "ioError"}
=============================================================================
