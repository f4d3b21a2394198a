--------------------------- MODULE MCGraphMonitor ---------------------------
(* A node, and a topic that may be reported with two different types and is waited for *)
EXTENDS GraphMonitor

Entry(k, n, t) == [kind |-> k, name |-> n, types |-> t]
Watch(k, n, b) == [kind |-> k, name |-> n, by |-> b]
MCEntries == {Entry("nodes", "camera", ""), Entry("topics", "image", "A"), Entry("topics", "image", "B")}
MCWatches == {Watch("topics", "image", 1)}
=============================================================================
