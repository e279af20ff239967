--------------------------- MODULE MCStreamToTable --------------------------
EXTENDS StreamToTable

\* Two items of a group, and a new one under the id of the first.
MCItems == {[id |-> 1, group |-> 1], [id |-> 2, group |-> 1], [id |-> 1, group |-> 2]}
=============================================================================
