--------------------------- MODULE ImageServices ----------------------------
(***************************************************************************)
(* Loaded images: the boot loader that lib.rs reads from the boot device   *)
(* and runs, and LoadImage, StartImage and UnloadImage, which the loader   *)
(* calls for the images it chains to.  An image's memory comes from the    *)
(* page allocator, its handle and its LoadedImage protocol go into the     *)
(* handle database, and a table remembers it for StartImage.  The PE file  *)
(* is reduced to its page count and the verdict of the PE loader: refused  *)
(* by the header checks, broken in a section or relocation (found after    *)
(* the memory is allocated), or fine.                                      *)
(***************************************************************************)
EXTENDS MemoryAllocator, Sequences

CONSTANTS
  LOADED_IMAGE,       \* the LoadedImage protocol's GUID
  NULL,
  MAX_HANDLES,
  MAX_PROTOCOLS_PER_HANDLE,
  MAX_LOADED_IMAGES,  \* capacity of the loaded image table
  Premade,            \* numbers of handles made before the boot loader runs
  PeFiles,            \* the PE files on the boot device
  FileTypes,          \* memory types the loader allocates for its own data
  MaxNesting          \* bound on nested StartImage calls

VARIABLES
  handles,        \* the handle database
  next_handle,
  loaded_images,  \* the loaded image table's entries in use
  boot,           \* the boot loader's image, NULL when there is none
  tried,          \* the selected boot entry was tried
  running,        \* handles of the images that run, innermost last
  app             \* the pages the images allocated for themselves

imageVars == <<handles, next_handle, loaded_images, boot, tried, running, app>>

Db == INSTANCE HandleDatabase WITH
        Guids <- {LOADED_IMAGE}, DEVICE_PATH <- NULL, Interfaces <- {},
        Batches <- {}

PeFile == [pages : Nat \ {0}, verdict : {"refused", "broken", "fine"}]

DEVICE == 1   \* handle of the boot device

ImageInit ==
  /\ Init
  /\ \E n \in Premade :
       /\ handles = [i \in 1 .. n |-> Db!NewEntry(i, <<>>)]
       /\ next_handle = n + 1
  /\ loaded_images = {} /\ boot = NULL /\ tried = FALSE
  /\ running = <<>>
  /\ app = {}

----------------------------------------------------------------------------
\* Memory as it is now, and after one more allocation or free.
Memory == Result(entries, map_key, "SUCCESS")

Take(m, n, t) == AllocateBelow(m.entries, m.map_key, n, t, ADDR_SPACE)

Give(m, a, n) == Free(m.entries, m.map_key, a, n)

Spot(m, n) == CHOOSE a \in FindFreePages(m.entries, n, ADDR_SPACE) : TRUE

\* The sections are copied and relocated in the pages at base, which are given
\* back when one of them does not fit.
PlaceSections(m, base, file) ==
  IF file.verdict = "broken"
  THEN [mem |-> Give(m, base, file.pages), base |-> NULL, status |-> "INVALID_PARAMETER"]
  ELSE [mem |-> m, base |-> base, status |-> "SUCCESS"]

\* pe::load_image: the headers, the pages, the sections.
PeLoad(m, file) ==
  LET got == Take(m, file.pages, "LoaderCode")
      refused == [mem |-> m, base |-> NULL, status |-> "INVALID_PARAMETER"]
  IN  IF file.verdict = "refused" THEN refused
      ELSE IF got.status # "SUCCESS" THEN [refused EXCEPT !.mem = got, !.status = got.status]
      ELSE PlaceSections(got, Spot(m, file.pages), file)

\* The LoadedImage protocol takes a pool page.
TakeProtocol(m) == Take(m, 1, "BootServicesData")

LoadedImageProtocol(base, n, device) == [base |-> base, pages |-> n, device |-> device]

\* Faulty: takes the parent's own handle for the device.
DeviceOfSelf(parent) == parent

\* The device of the parent's LoadedImage protocol.
DeviceOf(parent) ==
  LET p == Db!OpenProtocol(handles, parent, LOADED_IMAGE)
  IN  IF parent # NULL /\ p.status = "SUCCESS" THEN p.interface.device ELSE NULL

\* A new handle with the LoadedImage protocol on it.
WithImageHandle(proto) ==
  Append(handles, Db!NewEntry(next_handle, <<[guid |-> LOADED_IMAGE, interface |-> proto]>>))

Image(h, base, n, parent) ==
  [handle |-> h, base |-> base, pages |-> n, parent |-> parent]

----------------------------------------------------------------------------
(* lib.rs: read the boot loader, load it, run it.                          *)

\* The raw file is read into LoaderData pool memory, which is freed once the
\* PE loader is done with it.
LoadBootloader(file, readable) ==
  LET buffer == Take(Memory, file.pages, "LoaderData")
      at == Spot(Memory, file.pages)
      pe == PeLoad(buffer, file)
      closed == Give(pe.mem, at, file.pages)
      proto == TakeProtocol(closed)
      path == TakeProtocol(proto)   \* file path node; a failure is ignored
  IN  /\ ~tried /\ phase = "boot"
      /\ tried' = TRUE
      /\ UNCHANGED <<boot_services_exited, loaded_images, app>>
      /\ \/ /\ buffer.status # "SUCCESS"
            /\ Serve(buffer)
            /\ UNCHANGED <<handles, next_handle, boot, running>>
         \/ /\ buffer.status = "SUCCESS" /\ ~readable
            /\ Serve(Give(buffer, at, file.pages))
            /\ UNCHANGED <<handles, next_handle, boot, running>>
         \/ /\ buffer.status = "SUCCESS" /\ readable /\ pe.status # "SUCCESS"
            /\ Serve(closed)
            /\ UNCHANGED <<handles, next_handle, boot, running>>
         \/ /\ buffer.status = "SUCCESS" /\ readable /\ pe.status = "SUCCESS"
            /\ Len(handles) >= MAX_HANDLES        \* returns without unloading
            /\ Serve(closed)
            /\ UNCHANGED <<handles, next_handle, boot, running>>
         \/ /\ buffer.status = "SUCCESS" /\ readable /\ pe.status = "SUCCESS"
            /\ Len(handles) < MAX_HANDLES
            /\ next_handle' = next_handle + 1
            /\ IF proto.status # "SUCCESS"
               THEN /\ Serve(Give(proto, pe.base, file.pages))
                    /\ handles' = Append(handles, Db!NewEntry(next_handle, <<>>))
                    /\ UNCHANGED <<boot, running>>
               ELSE /\ Serve(path)
                    /\ handles' = WithImageHandle(LoadedImageProtocol(pe.base, file.pages, DEVICE))
                    /\ boot' = Image(next_handle, pe.base, file.pages, NULL)
                    /\ running' = <<next_handle>>

\* The boot loader's entry point returns and its image is freed.
BootloaderReturns ==
  /\ boot # NULL /\ running = <<boot.handle>>
  /\ Serve(Give(Memory, boot.base, boot.pages))
  /\ boot' = NULL /\ running' = <<>>
  /\ UNCHANGED <<boot_services_exited, handles, next_handle, loaded_images, tried, app>>

----------------------------------------------------------------------------
(* Services the running image calls.                                       *)

LoadImage(parent, file) ==
  LET pe == PeLoad(Memory, file)
      proto == TakeProtocol(pe.mem)
      undo(m) == Give(m, pe.base, file.pages)
      room == Cardinality(loaded_images) < MAX_LOADED_IMAGES
      image == LoadedImageProtocol(pe.base, file.pages, DeviceOf(parent))
  IN  /\ UNCHANGED <<boot_services_exited, boot, tried, running, app>>
      /\ \/ /\ pe.status # "SUCCESS"
            /\ Serve(pe.mem)
            /\ UNCHANGED <<handles, next_handle, loaded_images>>
         \/ /\ pe.status = "SUCCESS" /\ Len(handles) >= MAX_HANDLES
            /\ Serve(undo(pe.mem))
            /\ UNCHANGED <<handles, next_handle, loaded_images>>
         \/ /\ pe.status = "SUCCESS" /\ Len(handles) < MAX_HANDLES
            /\ proto.status # "SUCCESS"
            /\ Serve(undo(proto))
            /\ handles' = Append(handles, Db!NewEntry(next_handle, <<>>))
            /\ next_handle' = next_handle + 1
            /\ UNCHANGED loaded_images
         \/ /\ pe.status = "SUCCESS" /\ Len(handles) < MAX_HANDLES
            /\ proto.status = "SUCCESS"
            /\ Serve(IF room THEN proto ELSE undo(proto))
            /\ handles' = WithImageHandle(image)
            /\ next_handle' = next_handle + 1
            /\ loaded_images' =
                 IF room
                 THEN loaded_images \cup {Image(next_handle, pe.base, file.pages, parent)}
                 ELSE loaded_images

StartImage(h) ==
  /\ Len(running) < MaxNesting
  /\ \E im \in loaded_images : im.handle = h
  /\ running' = Append(running, h)
  /\ UNCHANGED <<vars, handles, next_handle, loaded_images, boot, tried, app>>

\* The entry point of a started image returns to StartImage.
ImageReturns ==
  /\ Len(running) > 1
  /\ running' = SubSeq(running, 1, Len(running) - 1)
  /\ UNCHANGED <<vars, handles, next_handle, loaded_images, boot, tried, app>>

\* Faulty: leaves the entry in the table.
UnloadImageKeepsEntry(im) ==
  /\ Serve(Give(Memory, im.base, im.pages))
  /\ UNCHANGED <<boot_services_exited, handles, next_handle, loaded_images, boot, tried, running, app>>

\* UnloadImage ignores the status of free_pages, and leaves the handle and its
\* protocols.  A handle that is not in the table changes nothing.
UnloadImage(im) ==
  /\ Serve(Give(Memory, im.base, im.pages))
  /\ loaded_images' = loaded_images \ {im}
  /\ UNCHANGED <<boot_services_exited, handles, next_handle, boot, tried, running, app>>

AppAllocate(t) ==
  LET got == Take(Memory, 1, t)
  IN  /\ got.status = "SUCCESS"
      /\ Serve(got)
      /\ app' = app \cup {Spot(Memory, 1)}
      /\ UNCHANGED <<boot_services_exited, handles, next_handle, loaded_images, boot, tried, running>>

AppFree(a) ==
  /\ Give(Memory, a, 1).status = "SUCCESS"
  /\ Serve(Give(Memory, a, 1))
  /\ app' = app \ {a}
  /\ UNCHANGED <<boot_services_exited, handles, next_handle, loaded_images, boot, tried, running>>

StartUp ==
  /\ \/ \E m \in CorebootMaps : InitFromCoreboot(m)
     \/ ReserveRuntimeRegion
     \/ EnterBootServices
  /\ UNCHANGED imageVars

Service ==
  /\ running # <<>>
  /\ \/ \E f \in PeFiles, p \in {running[Len(running)], NULL} : LoadImage(p, f)
     \/ \E im \in loaded_images : StartImage(im.handle)
     \/ \E im \in loaded_images : UnloadImage(im)
     \/ \E t \in FileTypes : AppAllocate(t)
     \/ \E a \in app : AppFree(a)

ImageNext ==
  \/ StartUp
  \/ \E f \in PeFiles, readable \in BOOLEAN : LoadBootloader(f, readable)
  \/ BootloaderReturns
  \/ Service
  \/ ImageReturns

ImageSpec == ImageInit /\ [][ImageNext]_<<vars, imageVars>>

----------------------------------------------------------------------------
(* Properties.                                                             *)

Images == loaded_images \cup (IF boot = NULL THEN {} ELSE {boot})

PagesOf(im) == im.base .. im.base + im.pages - 1

\* As long as an image is loaded its pages are loader code and no other image
\* has them, whatever loads fail half way, and whatever is unloaded, twice or
\* while it runs.
ImagesKeepMemory ==
  \A im \in Images :
    /\ \A p \in PagesOf(im) : PageHas(entries, p, "LoaderCode")
    /\ \A other \in Images \ {im} : PagesOf(im) \cap PagesOf(other) = {}

\* The handle of a loaded image carries a LoadedImage protocol that tells where
\* that very image is.  The boot device reaches every image down the chain of
\* parents: an image has the device of the image that loaded it, although that
\* one may be unloaded.
ImagesAreDescribed ==
  LET protocol(h) == Db!OpenProtocol(handles, h, LOADED_IMAGE)
  IN  \A im \in Images :
        LET mine == protocol(im.handle)
        IN  /\ mine.status = "SUCCESS"
            /\ mine.interface.base = im.base /\ mine.interface.pages = im.pages
            /\ im.parent # NULL =>
                 mine.interface.device = protocol(im.parent).interface.device
============================================================================
