\* Two links, four requests, every document another server may send.
CONSTANTS
  own = own
  foreign = foreign
  UNDEFINED = UNDEFINED
  NULL = NULL
  Links = {own, foreign}
  Own = {own}
  MaxRequests = 4
SPECIFICATION FairSpec
INVARIANTS TypeOK OwnPreview PopoverShowsAttributes LeftPopoversGo AdaptorPreviewParses
PROPERTIES OnePopover PreviewComes
