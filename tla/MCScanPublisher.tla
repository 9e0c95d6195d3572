--------------------------- MODULE MCScanPublisher ---------------------------
EXTENDS ScanPublisher, TLC

Change(topic)      == [on |-> TRUE, topic |-> topic, mode |-> "change", every |-> LongAgo]
Full(topic, every) == [on |-> TRUE, topic |-> topic, mode |-> "full", every |-> every]

MCPolicies == {[Change("a") EXCEPT !.on = FALSE], Change("a"), Full("b", 1)}

Sent == Points \ {NoValues}
MCMessage == [type : {"change"}, topic : {"a"}, points : Sent]
                \cup [type : {"full"}, topic : {"b"}, points : Sent]

\* Tags and values are only ever compared.
Symmetry == Permutations(Tag) \cup Permutations(Value)
==============================================================================
