----------------------------- MODULE MCImBridge -----------------------------
(* Instances of ImBridge for TLC.                                          *)
EXTENDS ImBridge, TLC

CONSTANTS main, other, source, bridge

OneProvider  == {main}
TwoProviders == {main, other}
OneSource    == {source}
ServeOnly    == {bridge}
SourceAndBridge == {source, bridge}
NoBridge     == {}

\* All of them drain the same provider; nobody drains the other one.
SourceDrains == [c \in OneSource |-> main]
ServeDrains  == [c \in ServeOnly |-> main]
BothDrain    == [c \in SourceAndBridge |-> main]

=============================================================================
