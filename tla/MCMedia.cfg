SPECIFICATION MediaSpec
CONSTANTS
    Slots = {map, avatar}
    CharacterSlots = {avatar}
    MapSlots = {map}
    AssetId = {a1, a2}
    NoAsset = NoAsset
    Handlers = {p, q}
INVARIANTS PicturesServed UploadsSurvive CleanReport
SYMMETRY Symmetry
