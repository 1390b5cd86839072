----------------------------- MODULE AovDevice -----------------------------
(***************************************************************************)
(* The persisted device record of the AOV project (aov_cp_device.c and     *)
(* aov_cp_device_store.c): what of it decides how the CP boots, and every  *)
(* operation that writes it.                                               *)
(***************************************************************************)
EXTENDS AovIpc

VARIABLE device   \* [loaded, ram, flash]: env->loaded, env->device, EasyFlash

Boots == {"UNPROVISIONED", "PROVISIONED", "OTA_PENDING", "RESET_PENDING"}

\* cred stands for credential_present, credential_valid and a usable SSID,
\* which every writer changes together.
Store == [cred : BOOLEAN, bind : BOOLEAN, reset : BOOLEAN, ota : BOOLEAN,
          boot : Boots]

Defaults == [cred |-> FALSE, bind |-> FALSE, reset |-> FALSE, ota |-> FALSE,
             boot |-> "UNPROVISIONED"]

DeviceTypeOK == device \in [loaded : BOOLEAN, ram : Store, flash : Store]

\* The records found in flash at first power-on: none (load falls back to the
\* defaults), or credentials stored over the debug CLI.
Factory == {Defaults,
            [Defaults EXCEPT !.cred = TRUE, !.boot = "PROVISIONED"]}

\* RAM before the BOOT event is handled.
Cold(flash) == [loaded |-> FALSE, ram |-> Defaults, flash |-> flash]

DeviceInit == \E f \in Factory : device = Cold(f)

-----------------------------------------------------------------------------
CredentialsValid(d) == d.loaded /\ d.ram.cred

\* Mutant: the boot takes the promise back before it is kept.
LoadOnce(d) == [d EXCEPT !.loaded = TRUE, !.ram = d.flash, !.flash.reset = FALSE]

\* aov_device_state_load: the load and the state it restores.
Load(d) == [d EXCEPT !.loaded = TRUE, !.ram = d.flash]

Restored(d) ==
    IF d.ram.reset \/ d.ram.boot = "RESET_PENDING" THEN "FACTORY_RESETTING"
    ELSE IF d.ram.ota \/ d.ram.boot = "OTA_PENDING" THEN "OTA_UPGRADING"
    ELSE IF CredentialsValid(d) THEN "WIFI_CONNECTING" ELSE "UNPROVISIONED"

\* The record that entering a CP state asks for.
Persisted(r, state) ==
    CASE state = "UNPROVISIONED" /\ ~(r.cred /\ r.bind) ->
            [r EXCEPT !.boot = "UNPROVISIONED"]
      [] state = "KEEPALIVE" /\ r.cred /\ r.bind ->
            [r EXCEPT !.boot = "PROVISIONED"]
      [] state = "OTA_UPGRADING" ->
            [r EXCEPT !.boot = "OTA_PENDING", !.ota = TRUE]
      [] state = "FACTORY_RESETTING" ->
            [r EXCEPT !.boot = "RESET_PENDING", !.reset = TRUE]
      [] OTHER -> r

\* Mutant: the change is only made in RAM.
CommitsInRam(d, state) == {[d EXCEPT !.ram = Persisted(d.ram, state)]}

\* aov_device_state_commit: write a copy, adopt it only when the write and
\* its verification succeed.  A failed verification leaves what was written.
Commits(d, state) ==
    LET r == Persisted(d.ram, state)
    IN  IF ~d.loaded \/ r = d.ram THEN {d}
        ELSE {[d EXCEPT !.ram = r, !.flash = r]} \cup
             IF "flash" \in Faults THEN {d, [d EXCEPT !.flash = r]} ELSE {}

\* The other writers change env->device in place before they write it.
Overwrites(d, r) ==
    {[d EXCEPT !.ram = r, !.flash = r]} \cup
    IF "flash" \in Faults THEN {[d EXCEPT !.ram = r]} ELSE {}

FactoryReset(d) ==
    Overwrites(d, [d.ram EXCEPT !.boot = "RESET_PENDING", !.reset = TRUE])

\* set_state(FACTORY_RESETTING) followed by the factory_reset operation.
ResetRequested(d) == UNION {FactoryReset(x) : x \in Commits(d, "FACTORY_RESETTING")}

\* Mutant: the command starts from a fresh record.
SetWifiFresh(d) ==
    Overwrites(d, [Defaults EXCEPT !.cred = TRUE, !.boot = "PROVISIONED"])

\* aov_wifi set and aov_wifi clear, once the record has been loaded.
SetWifi(d) == Overwrites(d, [d.ram EXCEPT !.cred = TRUE, !.boot = "PROVISIONED"])

ClearWifi(d) ==
    Overwrites(d, [d.ram EXCEPT !.cred = FALSE, !.bind = FALSE,
                                !.boot = "UNPROVISIONED"])

=============================================================================
