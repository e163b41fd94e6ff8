------------------------- MODULE MCAccessLifecycle -------------------------
EXTENDS AccessLifecycle

Boot(kind, signed, bound) == [kind |-> kind, signed |-> signed, bound |-> bound]

MCBoots == {
  Boot("none", "none", FALSE),
  Boot("tailscale", "broken", TRUE), Boot("tailscale", "ok", FALSE),
  Boot("managed", "ok", TRUE), Boot("managed", "broken", TRUE), Boot("managed", "none", FALSE)}

MCProbeOf == [s \in Slots |-> IF s = "web" THEN "http" ELSE IF s = "cmd" THEN "exec" ELSE "none"]
=============================================================================
