--------------------------- MODULE MCMqttSession ---------------------------
EXTENDS MqttSession

\* The first topic begins with the second.
MCBegins == {<<"ab", "ab">>, <<"a", "a">>, <<"ab", "a">>}
=============================================================================
