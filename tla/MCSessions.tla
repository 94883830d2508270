----------------------------- MODULE MCSessions -----------------------------
(* Small sets of sessions and phones for the model checker: an iPhone that  *)
(* moves between the air and the cable, an Android phone that does so and   *)
(* comes back over the air with a session of its own.                       *)
EXTENDS Sessions, TLC

(* The iPhone's two with one of the Android phone, the Android phone's three. *)
MCScenes == {{"cpWifi", "cpUsb", "aaWifi"}, {"aaWifi", "aaUsb", "aaAgain"}}
MCOnlyIPhone == {{"cpWifi", "cpUsb"}}

Owner == "cpWifi" :> "iPhone" @@ "cpUsb" :> "iPhone"
         @@ "aaWifi" :> "pixel" @@ "aaUsb" :> "pixel" @@ "aaAgain" :> "pixel"

MCPhoneOf == [l \in Links |-> Owner[l]]
MCPhones == {Owner[l] : l \in Links}
MCCable == {"cpUsb", "aaUsb"} \cap Links
=============================================================================
