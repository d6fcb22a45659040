-------------------------- MODULE MCTelegramBridge --------------------------
EXTENDS TelegramBridge

CONSTANTS b1, b2, s1, p1

AllCalls == {b1, b2, s1, p1}
Bridging == {b1, b2}
SomeStreams == {s1}
OneUrl == <<"url1">>
Cards == [url1 |-> "coding"]
SomeRoutes == {"coding", "review"}
SomeWords == {{}, {"code review", "code"}}
Chatting == [updates |-> <<"text", "ignored", "help">>, others |-> {}]
Streams == [updates |-> <<"help">>, others |-> {s1, p1}]
SomeLoads == {Chatting, Streams}

=============================================================================
