----------------------------- MODULE SystemCheck -----------------------------
(***************************************************************************)
(* The environment check before a migration (client/syschk.c).  Each check *)
(* answers PASS, WARN, FAIL or INFO; what the system says to a check is a  *)
(* parameter, the disks are those of DiskScan and the drivers those of     *)
(* DriverStore.                                                            *)
(***************************************************************************)
EXTENDS DiskScan, DriverStore

CONSTANTS
  Systems         \* what the system says: records of the five answers

\* check_admin_rights.
check_admin_rights(admin) == IF admin THEN "PASS" ELSE "FAIL"

\* check_windows_version: Windows 6.1 or later.
check_windows_version(version) ==
  CASE version = "unknown" -> "WARN" [] version = "old" -> "FAIL" [] OTHER -> "PASS"

\* check_vss_service: a stopped service starts on demand.
check_vss_service(service) ==
  CASE service \in {"running", "stopped"}   -> "PASS"
    [] service \in {"missing", "no_status"} -> "FAIL"
    [] OTHER                                -> "WARN"

\* check_disks; open is the set of volumes whose disk can be opened, of which there
\* is none when there is no volume.
check_disks(open) ==
  CASE open = {}          -> "FAIL"
    [] open = DOMAIN Vols -> "PASS"
    [] OTHER              -> "WARN"

\* check_disk_space: free space on the system drive, less than 1 GB or than 2 GB.
check_disk_space(free) ==
  CASE free = "none" -> "FAIL" [] free \in {"low", "unknown"} -> "WARN" [] OTHER -> "PASS"

\* check_bios_mode.
check_bios_mode(firmware) == IF firmware = "unknown" THEN "WARN" ELSE "PASS"

\* Mutant: the drivers are critical together only.
check_virtio_drivers_both(shown) ==
  LET found == driver_check_virtio(shown) IN
  CASE found = DriverNames                       -> "PASS"
    [] Critical \cap found = {}                  -> "FAIL"
    [] OTHER                                     -> "WARN"

\* check_virtio_drivers: only the display driver may be missing.
check_virtio_drivers(shown) ==
  LET found == driver_check_virtio(shown) IN
  CASE found = DriverNames         -> "PASS"
    [] ~(Critical \subseteq found) -> "FAIL"
    [] OTHER                       -> "WARN"

\* system_check_run: -1 if a check answers FAIL.
system_check_run(open, shown, sys) ==
  "FAIL" \notin {check_admin_rights(sys.admin), check_windows_version(sys.version),
                 check_vss_service(sys.service), check_disks(open),
                 check_disk_space(sys.free), check_bios_mode(sys.firmware),
                 check_virtio_drivers(shown)}
=============================================================================
