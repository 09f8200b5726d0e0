------------------------- MODULE MCDeviceCorrelation -------------------------
\* Instances of DeviceCorrelation for TLC.
EXTENDS DeviceCorrelation

\* Identifiers with the given fields, nothing else.
Showing(shown) ==
    [f \in Field |-> IF f \in DOMAIN shown THEN shown[f] ELSE NoValue]

\* Records that agree in their hostname and may have a serial number that
\* agrees or not, and records that have nothing in common with those.
MCEvidence ==
    [s \in Source |->
        {Showing([hostname |-> "a"]), Showing([hostname |-> "a", serial |-> "a"]),
         Showing([hostname |-> "a", serial |-> "b"]), Showing([stable_ip |-> "b"])}]
=============================================================================
