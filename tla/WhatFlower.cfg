SPECIFICATION FlowerSpec
CONSTANTS
    Flower = {rose, iris}
    Pictured = {rose}
    Request = {r1, r2, r3}
    NoArticle = NoArticle
INVARIANTS
    FlowerInv
PROPERTIES
    EveryPhotoAnswered
