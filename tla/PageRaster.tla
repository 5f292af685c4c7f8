----------------------------- MODULE PageRaster -----------------------------
(***************************************************************************)
(* The page raster picture crops come out of (src/mapping/image_crop.cpp): *)
(* decoded at most once, and spent down a budget of crops, of cropped      *)
(* pixels and of inline bytes.                                             *)
(***************************************************************************)
EXTENDS Naturals

CONSTANTS
    MaxCrops,       \* CropBudget::max_crops
    MaxArea,        \* max_area_pages times the raster's pixels
    MaxInlineBytes  \* CropBudget::max_inline_bytes

ASSUME CropCaps == MaxCrops \in Nat /\ MaxArea \in Nat /\ MaxInlineBytes \in Nat

(* What the page's PNG turns out to be: absent, with no readable header,   *)
(* above the pixel cap, broken after its header, or good.                  *)
Images == {"none", "headless", "too_large", "broken", "good"}

NewRaster(image) ==
    [image |-> image, tried |-> FALSE, decodes |-> 0, crops |-> 0, pixels |-> 0,
     bytes |-> 0, spent |-> FALSE]

(* Mutant: every crop decodes the raster again. *)
DecodeEachTime(raster) ==
    [raster EXCEPT !.tried = TRUE,
                   !.decodes = @ + IF raster.image \in {"good", "broken"} THEN 1 ELSE 0]

(* The header is read first, and a raster that claims too much is never    *)
(* decoded.                                                                *)
Decode(raster) ==
    IF raster.tried THEN raster
    ELSE [raster EXCEPT !.tried = TRUE,
                        !.decodes = @ + IF raster.image \in {"good", "broken"} THEN 1 ELSE 0]

(* Refusals a page is warned about. *)
CropSkips == {"over_budget", "over_byte_cap", "too_large"}

Outcome(raster, result) == [raster |-> raster, result |-> result]

(* A crop is charged before it is encoded. *)
Spend(raster, area) == [raster EXCEPT !.crops = @ + 1, !.pixels = @ + area]

(* Encode the crop and inline it; no bytes stands for an encoder failure.  *)
(* The first crop that would cross the byte cap ends all later ones.       *)
Attach(raster, uri) ==
    IF uri = 0 THEN Outcome(raster, "failed")
    ELSE IF uri > MaxInlineBytes - raster.bytes
         THEN Outcome([raster EXCEPT !.spent = TRUE], "over_byte_cap")
    ELSE Outcome([raster EXCEPT !.bytes = @ + uri], "attached")

(* Crop a region of that many pixels, none when the box is empty. *)
Crop(raster, area, uri) ==
    LET r == Decode(raster)
    IN  IF r.image # "good"
        THEN Outcome(r, IF r.image = "too_large" THEN "too_large" ELSE "failed")
        ELSE IF area = 0 THEN Outcome(r, "failed")
        ELSE IF r.spent THEN Outcome(r, "over_byte_cap")
        ELSE IF r.crops >= MaxCrops \/ r.pixels + area > MaxArea THEN Outcome(r, "over_budget")
        ELSE Attach(Spend(r, area), uri)
=============================================================================
