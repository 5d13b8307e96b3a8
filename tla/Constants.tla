----------------------------- MODULE Constants -----------------------------
(***************************************************************************)
(* constants.py, and the Python values the libraries keep in vif.vni.     *)
(***************************************************************************)
EXTENDS Integers

OFP_LOCAL        == 0
OFP_UPLINK_BASE  == 1
OFP_VHOST_BASE   == 10
OFP_TUNNEL_BASE  == 100

OF_TABLE_ADMISS   == 0
OF_TABLE_INPUT    == 20
OF_TABLE_ACL      == 30
OF_TABLE_CORE     == 40
OF_TABLE_FIB      == 50
OF_TABLE_NAT      == 60
OF_TABLE_L2_MATCH == 70
OF_TABLE_OUTPUT   == 80

(* A Python VNI value.  vif.vni is the int VNI_NONE (vif.py) until       *)
(* overlay.py sets it to a str such as f"{200 + idx}"; int 0 and str "0" *)
(* are different keys of br.vnis.  Txt is the number an f-string prints. *)
PyInt(n) == [ty |-> "int", n |-> n]
PyStr(n) == [ty |-> "str", n |-> n]
Txt(vni) == vni.n
VNI_NONE == PyInt(0)

(* vif.vni + 100: an int, or the TypeError Python raises for a str. *)
TypeError == [ty |-> "TypeError", n |-> 0]
PyAdd(vni, k) == IF vni.ty = "int" THEN PyInt(vni.n + k) ELSE TypeError

=============================================================================
