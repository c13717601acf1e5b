--------------------------- MODULE MCConfigLifecycle ---------------------------
EXTENDS ConfigLifecycle

Fresh == [n \in Nodes |-> Absent]
Direct == [Fresh EXCEPT ![Yaml] = "hindsight", ![Hindsight] = "user"]
\* A fresh home, direct Hindsight, an installation of the old schema, and one
\* whose plugin directory is a clone Hermes made.
MCHomes ==
  {Fresh, Direct, [Direct EXCEPT ![Yaml] = Legacy, ![Router] = "v1"],
   [n \in Nodes |-> IF n = Dir(Canonical) THEN "present"
                    ELSE IF n \in Entry(Canonical) \ {Marker(Canonical)} THEN "user"
                    ELSE Direct[n]]}
=============================================================================
