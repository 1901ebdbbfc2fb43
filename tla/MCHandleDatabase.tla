-------------------------- MODULE MCHandleDatabase --------------------------
(***************************************************************************)
(* The handle database under its two kinds of users.  machine says which:  *)
(* programs that install, uninstall and look up protocols in any order, on *)
(* two handles with room for two of three protocols each; or the image     *)
(* services, with images of one to nine pages on a platform of nine pages. *)
(***************************************************************************)
EXTENDS HandleDatabase

CONSTANTS BlockIo, Fs, LOADED_IMAGE, i1

VARIABLES entries, map_key, boot_services_exited, phase, marked,
          loaded_images, boot, tried, running, app, machine

Pair(g, x) == [guid |-> g, interface |-> x]

DbBatches ==
  {<<>>, <<Pair(DEVICE_PATH, i1)>>, <<Pair(Fs, NULL), Pair(BlockIo, i1)>>,
   <<Pair(BlockIo, NULL), Pair(DEVICE_PATH, NULL), Pair(Fs, i1)>>}

File(n, v) == [pages |-> n, verdict |-> v]

Images == INSTANCE ImageServices WITH
  MAX_MEMORY_ENTRIES <- 12, MAX_IDENTITY_MAPPED <- 9, ADDR_SPACE <- 16,
  MAX_MEMORY_REGIONS <- 2, MAX_ACPI_REGIONS <- 0,
  CorebootMaps <- {{[start |-> 0, pages |-> 9, type |-> "Ram"]}},
  RuntimeCode <- [start |-> 0, pages |-> 1], RuntimeData <- [start |-> 1, pages |-> 0],
  AcpiRegions <- {}, AllocTypes <- {"LoaderCode"}, Sizes <- {1}, Addresses <- {0}, MaxKey <- 16,
  MAX_HANDLES <- 5, Premade <- {0, 1, 4, 5}, MAX_LOADED_IMAGES <- 2,
  PeFiles <- {File(1, "fine"), File(5, "fine"), File(9, "fine"), File(1, "refused"),
              File(2, "broken")},
  FileTypes <- {"LoaderData"}, MaxNesting <- 3

imageVars == <<entries, map_key, boot_services_exited, phase, marked,
               loaded_images, boot, tried, running, app>>

MCInit ==
  /\ machine \in {"protocols", "images"}
  /\ Images!ImageInit
  /\ (machine = "protocols") = (handles = <<>>)

MCNext ==
  /\ UNCHANGED machine
  /\ \/ machine = "protocols" /\ Next /\ UNCHANGED imageVars
     \/ machine = "images" /\ Images!ImageNext

MCSpec == MCInit /\ [][MCNext]_<<vars, imageVars, machine>>

Carried == {k \in Known \X Guids : OpenProtocol(handles, k[1], k[2]).status = "SUCCESS"}

Abstract ==
  INSTANCE ProtocolMap WITH
    Handles <- 1 .. MAX_HANDLES,
    Requests <- {{b[n].guid : n \in DOMAIN b} : b \in Batches},
    created <- IF machine = "protocols" THEN Known ELSE {},
    installed <- [k \in (IF machine = "protocols" THEN Carried ELSE {}) |->
                    OpenProtocol(handles, k[1], k[2]).interface]

\* Installs and uninstalls, single or in batches that fail half way, only add
\* interfaces a handle did not have and only remove the ones named: the array
\* shifting of uninstall_multiple_protocol_interfaces disturbs no other entry.
ImplementsProtocolMap == Abstract!Spec

\* Images keep their memory whatever the image services do (LoadImage,
\* UnloadImage, the boot loader's own image), over this handle database.
ImagesKeepMemory == Images!ImagesKeepMemory

\* Handles of images tell where the image is and which device it came from
\* (LoadImage and load_and_execute_bootloader install the protocol).
ImagesAreDescribed == Images!ImagesAreDescribed
============================================================================
