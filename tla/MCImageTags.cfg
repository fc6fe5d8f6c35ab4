SPECIFICATION Spec
CONSTANTS
  image = image
  Cores <- MCCores
  Letters <- MCLetters
  Texts <- FewTexts
  Pushed <- MCPushed
  Names = {image}
  Posts <- MCPosts
  Forms = {f1}
  Limit = 2
  MaxTags = 4
INVARIANTS OffersNearest NothingHidden ReadsBack OneOrder
CONSTRAINT FewOrPairs
